---------------------------- MODULE Spec2Model ----------------------------
(***************************************************************************)
(* Admission-control pipeline of the Whisper transcription API             *)
(* (app/main.py, app/transcribe.py, app/config.py).                        *)
(*                                                                         *)
(* One action is one run of a coroutine between two suspension points of   *)
(* the asyncio event loop: the loop is single threaded, so the code        *)
(* between two awaits that really suspend is atomic.  The suspension       *)
(* points of POST /v1/transcribe are `await file.read()`, the wait for a   *)
(* permit inside asyncio.wait_for(sem.acquire(), ...) and the wait for     *)
(* the result of transcriber.transcribe().                                 *)
(*                                                                         *)
(* asyncio.Semaphore is modelled after CPython 3.11 (Lib/asyncio/locks.py):*)
(* release() hands the permit to the first waiter whose future is not      *)
(* done (the counter is decremented on its behalf at wake-up), and a       *)
(* waiter that is cancelled after it was woken gives the permit back.      *)
(* Time is abstracted: the timeout of wait_for may fire at any moment      *)
(* while the request is suspended in acquire().                            *)
(***************************************************************************)
EXTENDS Integers, Sequences, FiniteSets, TLC

\* ------------------------------------------------------------------ bounds
NumRequests == 3
\* Longest sequence of direct calls of the metrics record operation.
MaxRecords == 4
\* Longest sequence of calls made on a WhisperTranscriber used on its own.
MaxPortCalls == 4

\* --------------------------------------------------- settings (app/config.py)
MAX_CONCURRENT_JOBS == 2
MAX_MEMORY_THRESHOLD == 85
MAX_FILE_SIZE_BYTES == 200 * 1024 * 1024

Requests == 1..NumRequests

\* JSON values: a string is a sequence of fragments, None is the value Null.
Null == <<"<None>">>
\* A list of strings is the sequence of its items, each led by ITEM, between
\* LIST_OPEN and LIST_CLOSE; a value that is neither None, a string nor a list
\* (a dict, say) is the sequence of its fragments after OBJECT.
LIST_OPEN == "["
LIST_CLOSE == "]"
ITEM == ","
OBJECT == "{"

RECURSIVE Concat(_)
Concat(items) ==
    IF items = <<>> THEN <<>> ELSE <<ITEM>> \o Head(items) \o Concat(Tail(items))

JsonList(items) == <<LIST_OPEN>> \o Concat(items) \o <<LIST_CLOSE>>

IsNone(v) == v = Null
IsList(v) == Len(v) >= 2 /\ v[1] = LIST_OPEN /\ v[Len(v)] = LIST_CLOSE
IsObject(v) == Len(v) >= 1 /\ v[1] = OBJECT
\* isinstance(v, str)
IsStr(v) == ~IsNone(v) /\ ~IsList(v) /\ ~IsObject(v)
\* len() of a list
ListLen(v) == Cardinality({i \in 1..Len(v) : v[i] = ITEM})
\* str(v) of a value that is no string: its repr, a string
str(v) == <<"repr">> \o Tail(v)
\* app.state has no transcription_semaphore attribute yet.
NoSem == [value |-> -1, waiters |-> <<>>, woken |-> {}]
NoExc == [cls |-> "none", msg |-> <<>>]
NoResp == [status |-> 0]

\* A string is a sequence of one-character strings.
DOT == "."

LowerChar(c) ==
    CASE c = "W" -> "w"
      [] c = "A" -> "a"
      [] c = "V" -> "v"
      [] c = "M" -> "m"
      [] c = "P" -> "p"
      [] OTHER -> c

Lower(s) == [i \in 1..Len(s) |-> LowerChar(s[i])]

HasDot(s) == \E i \in 1..Len(s) : s[i] = DOT

\* filename.split(".")[-1]: the characters after the last "."
LastSegment(s) ==
    LET dots == {i \in 1..Len(s) : s[i] = DOT}
        last == IF dots = {} THEN 0 ELSE CHOOSE i \in dots : \A j \in dots : j <= i
    IN  SubSeq(s, last + 1, Len(s))

ALLOWED_EXTENSIONS ==
    { <<".", "m", "p", "3">>, <<".", "w", "a", "v">>, <<".", "m", "4", "a">>,
      <<".", "f", "l", "a", "c">>, <<".", "w", "e", "b", "m">>,
      <<".", "m", "p", "4">>, <<".", "a", "v", "i">>, <<".", "m", "o", "v">> }

\* file.filename or "upload"
NoName == <<>>
UPLOAD == <<"u", "p", "l", "o", "a", "d">>
EffectiveFilename(name) == IF name = NoName THEN UPLOAD ELSE name

\* Faulty variant: the lower() is lost, the comparison is case sensitive.
Suffix_case_sensitive(filename) ==
    IF HasDot(filename) THEN <<DOT>> \o LastSegment(filename) ELSE <<>>

Suffix(filename) ==
    IF HasDot(filename) THEN <<DOT>> \o Lower(LastSegment(filename)) ELSE <<>>

\* The inputs a request is drawn from.
FileNames ==
    { <<"a", ".", "w", "a", "v">>, <<"a", ".", "W", "A", "V">>,
      <<"b", ".", "t", "x", "t">>, <<"n", "o", "e", "x", "t">>,
      <<"a", ".">>, NoName, <<"x", ".", "y", ".", "m", "p", "3">>,
      <<"w", "a", "v">> }
MemorySamples == {42, MAX_MEMORY_THRESHOLD, MAX_MEMORY_THRESHOLD + 1, 96}
PayloadSizes == {1, MAX_FILE_SIZE_BYTES, MAX_FILE_SIZE_BYTES + 1}
\* Faulty variant: the clock is read again instead of using start, the elapsed
\* time is always 0.
Elapsed_zero == {0}

\* (time.perf_counter() - start) * 1000.0 of a request that did real work:
\* some positive number of milliseconds.
Elapsed == {7}
\* duration_ms of a direct call of the record operation: the endpoint passes 0.0
\* or an elapsed time, the function itself takes any float, a negative one too.
Durations == {-5, 0, 7, 1000}
Texts == {<<"hello world">>}

\* A request meets a memory sample at entry and brings a filename and a
\* payload.  given[r] = Open leaves them open until the request uses them.
Open == [mem_percent |-> -1, name |-> <<"*">>, size |-> -1]
Given == [mem_percent : MemorySamples, name : FileNames, size : PayloadSizes]

\* Exceptions a call of the Transcription Port can end with: a class and a message.
HandledClasses == {"RuntimeError", "ValueError", "OSError"}
ExcClasses == HandledClasses \cup {"KeyError"}
Messages == {<<"secret-a">>, <<"secret-b">>}

VARIABLES
    app_state,     \* "created": app object built, lifespan not run; "running"; "failed"
    sem,           \* app.state.transcription_semaphore: NoSem or [value, waiters, woken]
    initialized,   \* WhisperTranscriber._initialized
    patched,       \* the module global `transcriber` (main.py:136) holds another Port
                   \* object than the WhisperTranscriber, as main.py:12 provides for
    METRICS,       \* the metrics store
    pc,            \* where each request is
    resp,          \* the response delivered for each request
    exc,           \* the exception the Port raised inside each request
    acquired,      \* sem.acquire() returned to the request
    releases,      \* number of sem.release() calls the request made
    records,       \* the _metrics_record_request calls the request made
    calls,         \* the Port calls made for the request
    returned,      \* the text transcribe() returned to the request, Null if none
    worker,        \* the thread asyncio.to_thread started for the request: "none",
                   \* "running" or "finished"
    given,         \* what each request brings, where that is fixed beforehand
    history,       \* the calls made on the Port object itself, oldest first
    probe          \* the answer to the last GET /health or GET /metrics that a
                   \* client watched, and the dict get_metrics() returned for it

vars == <<app_state, sem, initialized, patched, METRICS, pc, resp, exc,
          acquired, releases, records, calls, returned, worker, given, history, probe>>

\* float(psutil.virtual_memory().percent) at the entry of request r
MemoryOf(r) == IF given[r] = Open THEN MemorySamples ELSE {given[r].mem_percent}
\* file.filename of request r
NameOf(r) == IF given[r] = Open THEN FileNames ELSE {given[r].name}
\* len(data) of request r
SizeOf(r) == IF given[r] = Open THEN PayloadSizes ELSE {given[r].size}

\* ------------------------------------------------------- error envelope
_status_phrase(code) ==
    CASE code = 400 -> "Bad Request"
      [] code = 403 -> "Forbidden"
      [] code = 404 -> "Not Found"
      [] code = 413 -> "Request Entity Too Large"
      [] code = 415 -> "Unsupported Media Type"
      [] code = 500 -> "Internal Server Error"
      [] code = 503 -> "Service Unavailable"
      [] OTHER -> "Error"

_error_envelope(code, details) ==
    [error |-> _status_phrase(code), code |-> code, details |-> details]

\* JSONResponse(status_code=..., content=...): every call in main.py leaves the
\* headers argument out, so the response carries no header of the application.
JSONResponse(status_code, content) ==
    [status |-> status_code, body |-> content, headers |-> {}]

\* starlette.exceptions.HTTPException: a detail left out is the status phrase.
HTTPException(status_code, detail, headers) ==
    [cls |-> "HTTPException", status_code |-> status_code,
     detail |-> IF IsNone(detail) THEN <<_status_phrase(status_code)>> ELSE detail,
     headers |-> headers]

\* fastapi.exceptions.RequestValidationError(errors)
RequestValidationError(errors) == [cls |-> "RequestValidationError", errors |-> errors]

\* A key that a dict of exc.errors() does not have.
Missing == <<"<missing>">>

\* ".".join(str(p) for p in err.get("loc", []) if p != "body")
RECURSIVE Join(_)
Join(parts) ==
    IF parts = <<>> THEN <<>>
    ELSE IF Len(parts) = 1 THEN <<parts[1]>>
    ELSE <<parts[1], DOT>> \o Join(Tail(parts))

Loc(err) ==
    Join(SelectSeq(IF err.loc = Missing THEN <<>> ELSE err.loc, LAMBDA part : part # "body"))

\* f"{loc}: {msg}" if loc else msg, with msg = err.get("msg", "Invalid value")
Item(err) ==
    LET msg == IF err.msg = Missing THEN <<"Invalid value">> ELSE err.msg
    IN  IF Loc(err) # <<>> THEN Loc(err) \o <<": ">> \o msg ELSE msg

\* str(exc) of a RequestValidationError without errors
STR_OF_NO_ERRORS == <<"[]">>

\* Faulty variant: without the fallback `or [str(exc)]`.
_flatten_validation_errors_no_fallback(e) ==
    JsonList([i \in 1..Len(e.errors) |-> Item(e.errors[i])])

_flatten_validation_errors(e) ==
    IF e.errors = <<>>
    THEN JsonList(<<STR_OF_NO_ERRORS>>)
    ELSE JsonList([i \in 1..Len(e.errors) |-> Item(e.errors[i])])

\* Faulty variant: the handler forgets the detail of the exception.
_http_exception_handler_no_details(e) ==
    JSONResponse(e.status_code, _error_envelope(e.status_code, Null))

\* Faulty variant: exc.detail is passed on as it is, a string or not.
_http_exception_handler_raw_detail(e) ==
    JSONResponse(e.status_code, _error_envelope(e.status_code, e.detail))

_http_exception_handler(e) ==
    LET details == IF IsNone(e.detail) THEN Null
                   ELSE IF IsStr(e.detail) THEN e.detail ELSE str(e.detail)
    IN  JSONResponse(e.status_code, _error_envelope(e.status_code, details))

_validation_exception_handler(e) ==
    JSONResponse(400, _error_envelope(400, _flatten_validation_errors(e)))

\* Faulty variant: the handler of ValueError reports str(exc).
_value_error_handler_leaks(e) ==
    JSONResponse(500, _error_envelope(500, e.msg))

_value_error_handler(e) ==
    JSONResponse(500, _error_envelope(500, Null))

\* Faulty variant: the catch-all handler reports str(exc).
_unhandled_exception_handler_leaks(e) ==
    JSONResponse(500, _error_envelope(500, e.msg))

_unhandled_exception_handler(e) ==
    JSONResponse(500, _error_envelope(500, Null))

\* Faulty variant: the catch-all handler shadows the handler of HTTPException.
ExceptionResponse_catch_all(e) ==
    IF e.cls = "HTTPException" /\ e.status_code < 500
    THEN _http_exception_handler(e)
    ELSE _unhandled_exception_handler(e)

\* app.add_exception_handler(...): the handler is looked up by exception class.
ExceptionResponse(e) ==
    CASE e.cls = "HTTPException" -> _http_exception_handler(e)
      [] e.cls = "RequestValidationError" -> _validation_exception_handler(e)
      [] e.cls = "ValueError" -> _value_error_handler(e)
      [] OTHER -> _unhandled_exception_handler(e)

\* ------------------------------------------------------------- metrics
\* avg_processing_time_ms is a float in the code; the model keeps it as an
\* exact fraction num/den in lowest terms (den > 0), so that the running
\* average is computed as the code computes it, up to the rounding of floats.
Abs(i) == IF i < 0 THEN -i ELSE i

RECURSIVE GCD(_, _)
GCD(a, b) == IF b = 0 THEN a ELSE GCD(b, a % b)

Fraction(n, d) ==
    LET g == GCD(Abs(n), d) IN [num |-> n \div g, den |-> d \div g]

ZERO == Fraction(0, 1)

\* max(a, b) of two integers
Max(a, b) == IF a >= b THEN a ELSE b

\* Faulty variant: the difference is divided by the number of calls made before
\* this one.
RunningAverage_old_total(prev_avg, duration_ms, total) ==
    LET t == Max(total - 1, 1)
    IN  Fraction(prev_avg.num * t + (duration_ms * prev_avg.den - prev_avg.num),
                 prev_avg.den * t)

\* prev_avg + (float(duration_ms) - prev_avg) / max(total, 1)
RunningAverage(prev_avg, duration_ms, total) ==
    LET t == Max(total, 1)
    IN  Fraction(prev_avg.num * t + (duration_ms * prev_avg.den - prev_avg.num),
                 prev_avg.den * t)

\* max(0.0, new_avg)
ClampAtZero(f) == IF f.num < 0 THEN ZERO ELSE f

\* Faulty variant: the store itself is handed out.
get_metrics_returns_store(m) == [is_store |-> TRUE, value |-> m]

\* get_metrics(): a new dict with the four fields of the store.  is_store tells
\* whether the dict returned is the METRICS object itself.
get_metrics(m) ==
    [is_store |-> FALSE,
     value |-> [total_requests |-> m.total_requests,
                accepted_requests |-> m.accepted_requests,
                rejected_requests |-> m.rejected_requests,
                avg_processing_time_ms |-> m.avg_processing_time_ms]]

\* Faulty variant: the else branch is lost, a rejected request is counted in the
\* total only.
_metrics_record_request_no_else(m, accepted, duration_ms) ==
    [m EXCEPT !.total_requests = @ + 1,
              !.accepted_requests = IF accepted THEN @ + 1 ELSE @,
              !.avg_processing_time_ms =
                  ClampAtZero(RunningAverage(@, duration_ms, m.total_requests + 1))]

\* Faulty variant: the update is computed from a stale copy of the store (the
\* counters as they were at import), so earlier updates are lost.
_metrics_record_request_stale(m, accepted, duration_ms) ==
    [total_requests |-> 1,
     accepted_requests |-> IF accepted THEN 1 ELSE 0,
     rejected_requests |-> IF accepted THEN 0 ELSE 1,
     avg_processing_time_ms |-> ClampAtZero(RunningAverage(ZERO, duration_ms, 1))]

\* Faulty variant: the counters cover a window of two requests and start afresh
\* with the request after it.
_metrics_record_request_window(m, accepted, duration_ms) ==
    LET base == IF m.total_requests >= 2
                THEN [total_requests |-> 0, accepted_requests |-> 0,
                      rejected_requests |-> 0, avg_processing_time_ms |-> ZERO]
                ELSE m
    IN  [base EXCEPT !.total_requests = @ + 1,
                     !.accepted_requests = IF accepted THEN @ + 1 ELSE @,
                     !.rejected_requests = IF accepted THEN @ ELSE @ + 1,
                     !.avg_processing_time_ms =
                         ClampAtZero(RunningAverage(@, duration_ms, base.total_requests + 1))]

_metrics_record_request(m, accepted, duration_ms) ==
    [m EXCEPT !.total_requests = @ + 1,
              !.accepted_requests = IF accepted THEN @ + 1 ELSE @,
              !.rejected_requests = IF accepted THEN @ ELSE @ + 1,
              !.avg_processing_time_ms =
                  ClampAtZero(RunningAverage(@, duration_ms, m.total_requests + 1))]

Recorded(r, accepted, duration_ms) ==
    /\ METRICS' = _metrics_record_request(METRICS, accepted, duration_ms)
    /\ records' = [records EXCEPT ![r] =
                      Append(@, [accepted |-> accepted, duration_ms |-> duration_ms])]

\* ----------------------------------------------------------- semaphore
\* Faulty variant: a new semaphore on every call (the `if sem is None` test is lost).
_ensure_semaphore_always_new(s) ==
    [value |-> MAX_CONCURRENT_JOBS, waiters |-> <<>>, woken |-> {}]

\* Faulty variant: asyncio.Semaphore() without its argument, one permit.
_ensure_semaphore_one_permit(s) ==
    IF s = NoSem
    THEN [value |-> 1, waiters |-> <<>>, woken |-> {}]
    ELSE s

_ensure_semaphore(s) ==
    IF s = NoSem
    THEN [value |-> MAX_CONCURRENT_JOBS, waiters |-> <<>>, woken |-> {}]
    ELSE s

locked(s) == s.value = 0 \/ Len(s.waiters) > 0

PendingWaiters(s) == {i \in 1..Len(s.waiters) : s.waiters[i] \notin s.woken}

_wake_up_next(s) ==
    IF PendingWaiters(s) = {} THEN s
    ELSE LET i == CHOOSE k \in PendingWaiters(s) : \A j \in PendingWaiters(s) : k <= j
         IN  [s EXCEPT !.value = @ - 1, !.woken = @ \cup {s.waiters[i]}]

sem_release(s) == _wake_up_next([s EXCEPT !.value = @ + 1])

RemoveWaiter(s, r) ==
    [s EXCEPT !.waiters = SelectSeq(@, LAMBDA x : x # r), !.woken = @ \ {r}]

\* acquire() resumes with the result of its future: leave the queue, pass a
\* spare permit on.
sem_acquire_resume(s, r) ==
    LET s1 == RemoveWaiter(s, r)
    IN  IF s1.value > 0 THEN _wake_up_next(s1) ELSE s1

\* acquire() is cancelled by wait_for: a waiter that was already woken gives
\* its permit back and wakes the next one.
sem_acquire_cancel(s, r) ==
    LET s1 == RemoveWaiter(s, r)
    IN  IF r \in s.woken THEN _wake_up_next([s1 EXCEPT !.value = @ + 1]) ELSE s1

\* Faulty variant: the free permits are reported instead of the permits in use.
current_active_tasks_free(s) == Max(0, _ensure_semaphore(s).value)

\* max(0, max_permits - int(sem._value)), on the semaphore _ensure_semaphore returns
current_active_tasks(s) == Max(0, MAX_CONCURRENT_JOBS - _ensure_semaphore(s).value)

\* ------------------------------------------------- Transcription Port
FFMPEG_MSG == <<"ffmpeg: not found">>
\* What mlx_whisper.transcribe can raise in the worker thread.
RawExceptions ==
    {[cls |-> c, msg |-> m] : c \in ExcClasses, m \in Messages}
    \cup {[cls |-> "FileNotFoundError", msg |-> FFMPEG_MSG]}

Raise(cls, msg) == [ok |-> FALSE, exc |-> [cls |-> cls, msg |-> msg]]
Return(v) == [ok |-> TRUE, value |-> v]

\* Faulty variant: the `if self._initialized: return` is lost, every call runs
\* the dependency check again.
initialize_rechecks ==
    {[ok |-> TRUE, initialized |-> TRUE, exc |-> NoExc, checked |-> TRUE],
     [ok |-> FALSE, initialized |-> initialized, checked |-> TRUE,
      exc |-> [cls |-> "RuntimeError", msg |-> <<"ffmpeg is required but not found.">>]]}

\* Faulty variant: _initialized is set before the dependency check, a failed
\* initialize() leaves the transcriber marked as ready.
initialize_marks_first ==
    IF patched
    THEN {[ok |-> TRUE, initialized |-> initialized, exc |-> NoExc, checked |-> FALSE]}
         \cup {[ok |-> FALSE, initialized |-> initialized, checked |-> FALSE,
                exc |-> [cls |-> c, msg |-> m]] : c \in ExcClasses, m \in Messages}
    ELSE IF initialized
    THEN {[ok |-> TRUE, initialized |-> TRUE, exc |-> NoExc, checked |-> FALSE]}
    ELSE {[ok |-> TRUE, initialized |-> TRUE, exc |-> NoExc, checked |-> TRUE],
          [ok |-> FALSE, initialized |-> TRUE, checked |-> TRUE,
           exc |-> [cls |-> "RuntimeError", msg |-> <<"ffmpeg is required but not found.">>]]}

\* The outcomes of `await transcriber.initialize()` in the current state; each
\* with the value of _initialized it leaves and whether check_ffmpeg_installed()
\* was run.  The check runs the external tool: either answer is possible.
initialize ==
    IF patched
    THEN {[ok |-> TRUE, initialized |-> initialized, exc |-> NoExc, checked |-> FALSE]}
         \cup {[ok |-> FALSE, initialized |-> initialized, checked |-> FALSE,
                exc |-> [cls |-> c, msg |-> m]] : c \in ExcClasses, m \in Messages}
    ELSE IF initialized
    THEN {[ok |-> TRUE, initialized |-> TRUE, exc |-> NoExc, checked |-> FALSE]}
    ELSE {[ok |-> TRUE, initialized |-> TRUE, exc |-> NoExc, checked |-> TRUE],
          [ok |-> FALSE, initialized |-> FALSE, checked |-> TRUE,
           exc |-> [cls |-> "RuntimeError", msg |-> <<"ffmpeg is required but not found.">>]]}

\* cleanup(): self._initialized = False
cleanup == FALSE

\* with tempfile.NamedTemporaryFile(delete=False, ...) as tmp: tmp.write(audio_bytes)
\* The file is written, or it could not be created (no file), or it was created
\* and the write failed: the `with` closes it and, with delete=False, leaves it.
write_temp_file ==
    {[ok |-> TRUE, value |-> Null, file |-> "written"]}
    \cup {[ok |-> FALSE, exc |-> [cls |-> "OSError", msg |-> m], file |-> f] :
             m \in Messages, f \in {"none", "left"}}

\* The temporary file a transcribe() call has on disk when it leaves its first part.
FileOf(out) == IF "file" \in DOMAIN out THEN out.file ELSE "none"

\* Faulty variant: the readiness check at the head of transcribe() is lost.
transcribe_start_unguarded(ready) ==
    IF patched THEN {Return(Null)}
    ELSE write_temp_file

\* transcribe() up to `await asyncio.to_thread(...)`: the readiness check and
\* the temporary file.
transcribe_start(ready) ==
    IF patched THEN {Return(Null)}
    ELSE IF ~ready THEN {Raise("RuntimeError", <<"Transcriber not initialized">>)}
    ELSE write_temp_file

\* _run_transcription: a FileNotFoundError that mentions ffmpeg becomes a RuntimeError.
_run_transcription(raw) ==
    IF raw.ok THEN raw
    ELSE IF raw.exc.cls = "FileNotFoundError" /\ raw.exc.msg = FFMPEG_MSG
    THEN Raise("RuntimeError", <<"ffmpeg not found. Install with: brew install ffmpeg">>)
    ELSE raw

\* Faulty variant: the `except Exception` clause is lost, what the thread raised
\* goes to the caller as it is.
WrapBackendError_reraises(out) == out

\* except RuntimeError: raise / except Exception: raise RuntimeError(...)
WrapBackendError(out) ==
    IF out.ok THEN out
    ELSE IF out.exc.cls = "RuntimeError" THEN out
    ELSE Raise("RuntimeError", <<"Transcription failed: ">> \o out.exc.msg)

\* How the call mlx_whisper.transcribe(...) in the worker thread can end.
BackendOutcomes ==
    {Return(t) : t \in Texts} \cup {Raise(e.cls, e.msg) : e \in RawExceptions}

\* The outcomes of the suspended transcribe() call when it resumes.
transcribe_finish ==
    IF patched
    THEN {Return(t) : t \in Texts}
         \cup {Raise(c, m) : c \in ExcClasses, m \in Messages}
    ELSE {WrapBackendError(_run_transcription(raw)) : raw \in BackendOutcomes}

\* finally: tmp_path.unlink(missing_ok=True), an OSError of it is logged and
\* dropped: the file is gone, or it is still there.
unlink == {"deleted", "left"}

\* ------------------------------------------------- authentication dependency
\* app/config.py: the attributes an instance of Settings has, its fields and
\* its two properties.
SettingsAttributes ==
    {"RAPIDAPI_PROXY_SECRET", "DEPLOYMENT_PLATFORM", "MODEL_NAME", "MAX_CONCURRENT_JOBS",
     "SEMAPHORE_TIMEOUT", "MAX_FILE_SIZE_BYTES", "ALLOWED_EXTENSIONS",
     "MAX_MEMORY_THRESHOLD", "MAX_CACHE_SIZE", "API_TITLE", "API_VERSION",
     "API_DESCRIPTION", "HOST", "PORT", "DEFAULT_RATE_LIMIT", "PREMIUM_RATE_LIMIT",
     "LOG_LEVEL", "LOG_FILE", "METAL_DEVICE_WRAPPER", "PREVENT_SLEEP", "DEBUG", "RELOAD",
     "model_config", "is_production", "auth_enabled", "get_log_config"}

\* Settings() as verify_api_key_optional builds it on every call, from the
\* environment of that moment; the attributes the dependency could read.
\* Variables of the environment that are no field are ignored (extra="ignore").
Settings(env_secret) ==
    [RAPIDAPI_PROXY_SECRET |-> env_secret, auth_enabled |-> ~IsNone(env_secret)]

\* settings.<name>: pydantic raises AttributeError for a name that is neither a
\* field nor an attribute of the class.
Attribute(settings, name) ==
    IF name \in SettingsAttributes
    THEN Return(settings[name])
    ELSE Raise("AttributeError", <<"'Settings' object has no attribute ", name>>)

EMPTY == <<>>
Falsy(v) == IsNone(v) \/ v = EMPTY

MISSING_AUTH_DETAIL == <<"Missing RapidAPI ", "authentication">>
INVALID_SECRET_DETAIL == <<"Invalid RapidAPI ", "secret">>

Anonymous(user) == IF Falsy(user) THEN <<"anonymous">> ELSE user

verify_api_key_optional(x_rapidapi_proxy_secret, x_rapidapi_user, env_secret) ==
    LET settings == Settings(env_secret)
        REQUIRE_AUTH == Attribute(settings, "REQUIRE_AUTH")
    IN  IF ~REQUIRE_AUTH.ok THEN REQUIRE_AUTH
        ELSE IF ~REQUIRE_AUTH.value
        THEN Return([user |-> Anonymous(x_rapidapi_user), authenticated |-> FALSE])
        ELSE IF Falsy(x_rapidapi_proxy_secret)
        THEN [ok |-> FALSE, exc |-> HTTPException(403, MISSING_AUTH_DETAIL, {})]
        ELSE IF x_rapidapi_proxy_secret # settings.RAPIDAPI_PROXY_SECRET
        THEN [ok |-> FALSE, exc |-> HTTPException(403, INVALID_SECRET_DETAIL, {})]
        ELSE Return([user |-> Anonymous(x_rapidapi_user), authenticated |-> TRUE])

\* app/dependencies.py, get_user_context.  env_secret is
\* os.getenv("RAPIDAPI_PROXY_SECRET") at the time of the call (Null: not set); a
\* header is Null when the request does not carry it.
MISSING_PROXY_SECRET_DETAIL == <<"Missing RapidAPI proxy secret">>
INVALID_PROXY_SECRET_DETAIL == <<"Invalid RapidAPI proxy secret">>
MISSING_USER_DETAIL == <<"Missing RapidAPI user">>
ANONYMOUS == <<"anonymous">>
FREE == <<"FREE">>

\* a or b, for strings and None
Or(a, b) == IF Falsy(a) THEN b ELSE a

UserContext(user, subscription) == [user |-> user, subscription |-> subscription]

\* Faulty variant: the user header is not validated.
get_user_context_any_user(x_rapidapi_proxy_secret, x_rapidapi_user, x_rapidapi_subscription, env_secret) ==
    LET expected_secret == env_secret
        context == Return(UserContext(Or(x_rapidapi_user, ANONYMOUS),
                                      Or(x_rapidapi_subscription, FREE)))
    IN  IF ~IsNone(expected_secret)
        THEN IF Falsy(x_rapidapi_proxy_secret)
             THEN [ok |-> FALSE, exc |-> HTTPException(403, MISSING_PROXY_SECRET_DETAIL, {})]
             ELSE IF x_rapidapi_proxy_secret # expected_secret
             THEN [ok |-> FALSE, exc |-> HTTPException(403, INVALID_PROXY_SECRET_DETAIL, {})]
             ELSE context
        ELSE context

get_user_context(x_rapidapi_proxy_secret, x_rapidapi_user, x_rapidapi_subscription, env_secret) ==
    LET expected_secret == env_secret
        context == Return(UserContext(Or(x_rapidapi_user, ANONYMOUS),
                                      Or(x_rapidapi_subscription, FREE)))
    IN  IF ~IsNone(expected_secret)
        THEN IF Falsy(x_rapidapi_proxy_secret)
             THEN [ok |-> FALSE, exc |-> HTTPException(403, MISSING_PROXY_SECRET_DETAIL, {})]
             ELSE IF x_rapidapi_proxy_secret # expected_secret
             THEN [ok |-> FALSE, exc |-> HTTPException(403, INVALID_PROXY_SECRET_DETAIL, {})]
             ELSE IF Falsy(x_rapidapi_user)
             THEN [ok |-> FALSE, exc |-> HTTPException(403, MISSING_USER_DETAIL, {})]
             ELSE context
        ELSE context

\* ------------------------------------------------------------- /v1/transcribe
MEMORY_DETAIL == <<"Service under memory pressure. Please try again later.">>
SIZE_DETAIL == <<"File exceeds maximum allowed size.">>
BUSY_DETAIL == <<"All workers are currently busy. Please try again later.">>
FAILED_DETAIL == <<"Transcription failed.">>
\* f"Unsupported file type: {suffix or 'unknown'}"
UnsupportedDetail(suffix) ==
    <<"Unsupported", " file type: ">> \o (IF suffix = <<>> THEN <<"unknown">> ELSE suffix)

\* Faulty variant: a sample equal to the threshold is refused as well.
MemoryPressure_inclusive(mem_percent) == mem_percent >= MAX_MEMORY_THRESHOLD

\* mem_percent > settings.MAX_MEMORY_THRESHOLD
MemoryPressure(mem_percent) == mem_percent > MAX_MEMORY_THRESHOLD

\* Faulty variant: a payload of exactly the maximum size is refused too.
TooLarge_inclusive(size) == size >= MAX_FILE_SIZE_BYTES

\* len(data) > int(settings.MAX_FILE_SIZE_BYTES)
TooLarge(size) == size > MAX_FILE_SIZE_BYTES

RETRY_AFTER == <<"Retry-After", "30">>

\* A rejection before a permit is held: record it with duration 0 and raise.
Reject(r, e, outcome) ==
    /\ Recorded(r, FALSE, 0)
    /\ resp' = [resp EXCEPT ![r] = ExceptionResponse(e)]
    /\ pc' = [pc EXCEPT ![r] = outcome]

\* Faulty variant: the permit is released at the end of the try body and of the except
\* clause instead of in a finally clause.
ProtectedExit_no_finally(r, s, out, made) ==
    LET caught == out.ok \/ out.exc.cls \in HandledClasses
    IN  /\ sem' = IF caught THEN sem_release(s) ELSE s
        /\ releases' = [releases EXCEPT ![r] = IF caught THEN @ + 1 ELSE @]
        /\ calls' = [calls EXCEPT ![r] = made]
        /\ pc' = [pc EXCEPT ![r] = "done"]
        /\ exc' = [exc EXCEPT ![r] = IF out.ok THEN NoExc ELSE out.exc]
        /\ returned' = [returned EXCEPT ![r] = IF out.ok THEN out.value ELSE Null]
        /\ worker' = [worker EXCEPT ![r] = IF @ = "running" THEN "finished" ELSE @]
        /\ IF out.ok
           THEN /\ \E d \in Elapsed : Recorded(r, TRUE, d)
                /\ resp' = [resp EXCEPT ![r] = JSONResponse(200, [text |-> out.value])]
           ELSE IF out.exc.cls \in HandledClasses
           THEN /\ \E d \in Elapsed : Recorded(r, FALSE, d)
                /\ resp' = [resp EXCEPT ![r] =
                              ExceptionResponse(HTTPException(500, FAILED_DETAIL, {}))]
           ELSE /\ UNCHANGED <<METRICS, records>>
                /\ resp' = [resp EXCEPT ![r] = ExceptionResponse(out.exc)]

\* The try/except/finally of the endpoint, from the outcome of the Port calls on:
\* record, build the response, release the permit.
\* Faulty variant: a request whose transcription failed is counted as accepted,
\* because it had been admitted.
ProtectedExit_accepts_failures(r, s, out, made) ==
    /\ sem' = sem_release(s)
    /\ releases' = [releases EXCEPT ![r] = @ + 1]
    /\ calls' = [calls EXCEPT ![r] = made]
    /\ pc' = [pc EXCEPT ![r] = "done"]
    /\ exc' = [exc EXCEPT ![r] = IF out.ok THEN NoExc ELSE out.exc]
    /\ returned' = [returned EXCEPT ![r] = IF out.ok THEN out.value ELSE Null]
    /\ worker' = [worker EXCEPT ![r] = IF @ = "running" THEN "finished" ELSE @]
    /\ IF out.ok
       THEN /\ \E d \in Elapsed : Recorded(r, TRUE, d)
            /\ resp' = [resp EXCEPT ![r] = JSONResponse(200, [text |-> out.value])]
       ELSE IF out.exc.cls \in HandledClasses
       THEN /\ \E d \in Elapsed : Recorded(r, TRUE, d)
            /\ resp' = [resp EXCEPT ![r] =
                          ExceptionResponse(HTTPException(500, FAILED_DETAIL, {}))]
       ELSE /\ UNCHANGED <<METRICS, records>>
            /\ resp' = [resp EXCEPT ![r] = ExceptionResponse(out.exc)]

ProtectedExit(r, s, out, made) ==
    /\ sem' = sem_release(s)
    /\ releases' = [releases EXCEPT ![r] = @ + 1]
    /\ calls' = [calls EXCEPT ![r] = made]
    /\ pc' = [pc EXCEPT ![r] = "done"]
    /\ exc' = [exc EXCEPT ![r] = IF out.ok THEN NoExc ELSE out.exc]
    /\ returned' = [returned EXCEPT ![r] = IF out.ok THEN out.value ELSE Null]
    /\ worker' = [worker EXCEPT ![r] = IF @ = "running" THEN "finished" ELSE @]
    /\ IF out.ok
       THEN /\ \E d \in Elapsed : Recorded(r, TRUE, d)
            /\ resp' = [resp EXCEPT ![r] = JSONResponse(200, [text |-> out.value])]
       ELSE IF out.exc.cls \in HandledClasses
       THEN /\ \E d \in Elapsed : Recorded(r, FALSE, d)
            /\ resp' = [resp EXCEPT ![r] =
                          ExceptionResponse(HTTPException(500, FAILED_DETAIL, {}))]
       ELSE /\ UNCHANGED <<METRICS, records>>
            /\ resp' = [resp EXCEPT ![r] = ExceptionResponse(out.exc)]

\* Faulty variant: the permit is given back as soon as transcribe() is under way.
ProtectedSection_releases_early(r, s) ==
    /\ \E io \in initialize :
         /\ initialized' = io.initialized
         /\ IF ~io.ok
            THEN ProtectedExit(r, s, io, <<"initialize">>)
            ELSE \E so \in transcribe_start(io.initialized) :
                   IF ~so.ok
                   THEN ProtectedExit(r, s, so, <<"initialize", "transcribe">>)
                   ELSE /\ sem' = sem_release(s)
                        /\ releases' = [releases EXCEPT ![r] = @ + 1]
                        /\ calls' = [calls EXCEPT ![r] = <<"initialize", "transcribe">>]
                        /\ pc' = [pc EXCEPT ![r] = "transcribing"]
                        /\ worker' = [worker EXCEPT ![r] = "running"]
                        /\ UNCHANGED <<resp, exc, METRICS, records, returned>>

\* Faulty variant: transcribe() is called without `await transcriber.initialize()`
\* before it.
ProtectedSection_skips_initialize(r, s) ==
    /\ UNCHANGED initialized
    /\ \E so \in transcribe_start(initialized) :
         IF ~so.ok
         THEN ProtectedExit(r, s, so, <<"transcribe">>)
         ELSE /\ sem' = s
              /\ calls' = [calls EXCEPT ![r] = <<"transcribe">>]
              /\ pc' = [pc EXCEPT ![r] = "transcribing"]
              /\ worker' = [worker EXCEPT ![r] = "running"]
              /\ UNCHANGED <<resp, exc, METRICS, records, releases, returned>>

\* The code that runs once acquire() has returned, up to the next suspension:
\* initialize(), then transcribe() until it waits for its worker thread.
ProtectedSection(r, s) ==
    /\ \E io \in initialize :
         /\ initialized' = io.initialized
         /\ IF ~io.ok
            THEN ProtectedExit(r, s, io, <<"initialize">>)
            ELSE \E so \in transcribe_start(io.initialized) :
                   IF ~so.ok
                   THEN ProtectedExit(r, s, so, <<"initialize", "transcribe">>)
                   ELSE /\ sem' = s
                        /\ calls' = [calls EXCEPT ![r] = <<"initialize", "transcribe">>]
                        /\ pc' = [pc EXCEPT ![r] = "transcribing"]
                        /\ worker' = [worker EXCEPT ![r] = "running"]
                        /\ UNCHANGED <<resp, exc, METRICS, records, releases, returned>>

NoProbe == [kind |-> "none"]

Terminal == {"rejected_memory", "rejected_extension", "rejected_size", "timed_out", "done"}

Created ==
    /\ app_state = "created"
    /\ sem = NoSem
    /\ initialized = FALSE
    /\ patched \in BOOLEAN
    /\ METRICS = [total_requests |-> 0, accepted_requests |-> 0, rejected_requests |-> 0,
                  avg_processing_time_ms |-> ZERO]
    /\ pc = [r \in Requests |-> "idle"]
    /\ resp = [r \in Requests |-> NoResp]
    /\ exc = [r \in Requests |-> NoExc]
    /\ acquired = [r \in Requests |-> FALSE]
    /\ releases = [r \in Requests |-> 0]
    /\ records = [r \in Requests |-> <<>>]
    /\ calls = [r \in Requests |-> <<>>]
    /\ returned = [r \in Requests |-> Null]
    /\ worker = [r \in Requests |-> "none"]
    /\ history = <<>>
    /\ probe = NoProbe

\* The application object after import; what the requests will bring is open.
Init == Created /\ given = [r \in Requests |-> Open]

\* lifespan startup: it runs before the first request, when it runs at all.
Startup ==
    /\ app_state = "created"
    /\ \A r \in Requests : pc[r] = "idle"
    /\ sem' = _ensure_semaphore(sem)
    /\ \E io \in initialize :
         /\ initialized' = io.initialized
         /\ app_state' = IF io.ok THEN "running" ELSE "failed"
    /\ UNCHANGED <<patched, METRICS, pc, resp, exc, acquired, releases, records, calls,
                   returned, worker, given, history, probe>>

\* Faulty variant: the extension is validated before the memory is sampled.
Arrive_extension_first(r) ==
    /\ app_state # "failed"
    /\ pc[r] = "idle"
    /\ r > 1 => pc[r - 1] # "idle"
    /\ \E mem_percent \in MemoryOf(r), name \in NameOf(r) :
         LET filename == EffectiveFilename(name)
             suffix == Suffix(filename)
         IN  IF suffix \notin ALLOWED_EXTENSIONS
             THEN Reject(r, HTTPException(415, UnsupportedDetail(suffix), {}),
                         "rejected_extension")
             ELSE IF mem_percent > MAX_MEMORY_THRESHOLD
             THEN Reject(r, HTTPException(503, MEMORY_DETAIL, {}), "rejected_memory")
             ELSE /\ pc' = [pc EXCEPT ![r] = "reading"]
                  /\ UNCHANGED <<METRICS, records, resp>>
    /\ UNCHANGED <<app_state, sem, initialized, patched, exc, acquired, releases, calls,
                   returned, worker, given, history, probe>>

\* Entry of the endpoint up to `await file.read()`: memory guard, extension guard.
Arrive(r) ==
    /\ app_state # "failed"
    /\ pc[r] = "idle"
    /\ r > 1 => pc[r - 1] # "idle"      \* request r is the r-th to arrive
    /\ \E mem_percent \in MemoryOf(r), name \in NameOf(r) :
         LET filename == EffectiveFilename(name)
             suffix == Suffix(filename)
         IN  IF MemoryPressure(mem_percent)
             THEN Reject(r, HTTPException(503, MEMORY_DETAIL, {}), "rejected_memory")
             ELSE IF suffix \notin ALLOWED_EXTENSIONS
             THEN Reject(r, HTTPException(415, UnsupportedDetail(suffix), {}),
                         "rejected_extension")
             ELSE /\ pc' = [pc EXCEPT ![r] = "reading"]
                  /\ UNCHANGED <<METRICS, records, resp>>
    /\ UNCHANGED <<app_state, sem, initialized, patched, exc, acquired, releases, calls,
                   returned, worker, given, history, probe>>

\* Faulty variant: the permit is asked for before the size of the payload is
\* checked, so that an oversize payload waits when the pool is saturated.
ReadPayload_permit_first(r) ==
    /\ pc[r] = "reading"
    /\ \E size \in SizeOf(r) :
         LET s == _ensure_semaphore(sem)
         IN  IF locked(s)
             THEN /\ sem' = [s EXCEPT !.waiters = Append(@, r)]
                  /\ pc' = [pc EXCEPT ![r] = "waiting"]
                  /\ UNCHANGED <<initialized, METRICS, records, resp, exc,
                                 acquired, releases, calls, returned, worker>>
             ELSE IF TooLarge(size)
             THEN /\ Reject(r, HTTPException(413, SIZE_DETAIL, {}), "rejected_size")
                  /\ sem' = s
                  /\ UNCHANGED <<initialized, exc, acquired, releases, calls, returned,
                                 worker>>
             ELSE /\ acquired' = [acquired EXCEPT ![r] = TRUE]
                  /\ ProtectedSection(r, [s EXCEPT !.value = @ - 1])
    /\ UNCHANGED <<app_state, patched, given, history, probe>>

\* file.read() returns: size guard, then the attempt to take a permit.
ReadPayload(r) ==
    /\ pc[r] = "reading"
    /\ \E size \in SizeOf(r) :
         IF TooLarge(size)
         THEN /\ Reject(r, HTTPException(413, SIZE_DETAIL, {}), "rejected_size")
              /\ UNCHANGED <<sem, initialized, exc, acquired, releases, calls, returned, worker>>
         ELSE LET s == _ensure_semaphore(sem)
              IN  IF ~locked(s)
                  THEN /\ acquired' = [acquired EXCEPT ![r] = TRUE]
                       /\ ProtectedSection(r, [s EXCEPT !.value = @ - 1])
                  ELSE /\ sem' = [s EXCEPT !.waiters = Append(@, r)]
                       /\ pc' = [pc EXCEPT ![r] = "waiting"]
                       /\ UNCHANGED <<initialized, METRICS, records, resp, exc,
                                      acquired, releases, calls, returned, worker>>
    /\ UNCHANGED <<app_state, patched, given, history, probe>>

\* The woken waiter runs again: acquire() returns True.
AcquireResume(r) ==
    /\ pc[r] = "waiting"
    /\ r \in sem.woken
    /\ acquired' = [acquired EXCEPT ![r] = TRUE]
    /\ ProtectedSection(r, sem_acquire_resume(sem, r))
    /\ UNCHANGED <<app_state, patched, given, history, probe>>

\* Faulty variant: the TimeoutError is swallowed and the request goes on without a permit.
AcquireTimeout_proceeds(r) ==
    /\ pc[r] = "waiting"
    /\ ProtectedSection(r, sem_acquire_cancel(sem, r))
    /\ UNCHANGED <<app_state, patched, acquired, given, history, probe>>

\* Faulty variant: the wait for the permit sits inside the try whose finally releases.
AcquireTimeout_releases(r) ==
    /\ pc[r] = "waiting"
    /\ sem' = sem_release(sem_acquire_cancel(sem, r))
    /\ releases' = [releases EXCEPT ![r] = @ + 1]
    /\ Reject(r, HTTPException(503, BUSY_DETAIL, {RETRY_AFTER}), "timed_out")
    /\ UNCHANGED <<app_state, initialized, patched, exc, acquired, calls, returned, worker, given, history, probe>>

\* Faulty variant: wait_for wraps the whole of the admitted work, so that the
\* timeout also ends a request that is inside transcribe().
AcquireTimeout_any_phase(r) ==
    /\ pc[r] \in {"waiting", "transcribing"}
    /\ sem' = IF pc[r] = "waiting" THEN sem_acquire_cancel(sem, r) ELSE sem_release(sem)
    /\ releases' = [releases EXCEPT ![r] = IF pc[r] = "waiting" THEN @ ELSE @ + 1]
    /\ Reject(r, HTTPException(503, BUSY_DETAIL, {RETRY_AFTER}), "timed_out")
    /\ UNCHANGED <<app_state, initialized, patched, exc, acquired, calls, returned, worker, given, history, probe>>

\* Faulty variant: the TimeoutError is answered by waiting again, without limit;
\* the request goes back to the end of the queue.
AcquireTimeout_retries(r) ==
    /\ pc[r] = "waiting"
    /\ sem' = [sem_acquire_cancel(sem, r) EXCEPT !.waiters = Append(@, r)]
    /\ UNCHANGED <<app_state, initialized, patched, METRICS, pc, resp, exc, acquired,
                   releases, records, calls, returned, worker, given, history, probe>>

\* The timeout of wait_for fires while the request is suspended in acquire().
AcquireTimeout(r) ==
    /\ pc[r] = "waiting"
    /\ sem' = sem_acquire_cancel(sem, r)
    /\ Reject(r, HTTPException(503, BUSY_DETAIL, {RETRY_AFTER}), "timed_out")
    /\ UNCHANGED <<app_state, initialized, patched, exc, acquired, releases, calls,
                   returned, worker, given, history, probe>>

\* The suspended transcribe() call ends, with a text or an exception.
TranscribeDone(r) ==
    /\ pc[r] = "transcribing"
    /\ \E out \in transcribe_finish : ProtectedExit(r, sem, out, calls[r])
    /\ UNCHANGED <<app_state, initialized, patched, acquired, given, history, probe>>

\* GET /health: no suspension point; current_active_tasks creates the semaphore
\* when there is none.  The handler reports current_active_tasks(sem).
health_check ==
    /\ app_state # "failed"
    /\ sem' = _ensure_semaphore(sem)
    /\ UNCHANGED <<app_state, initialized, patched, METRICS, pc, resp, exc, acquired,
                   releases, records, calls, returned, worker, given, history, probe>>

Next ==
    \/ Startup
    \/ health_check
    \/ \E r \in Requests : Arrive(r)
    \/ \E r \in Requests : ReadPayload(r)
    \/ \E r \in Requests : AcquireResume(r)
    \/ \E r \in Requests : AcquireTimeout(r)
    \/ \E r \in Requests : TranscribeDone(r)

Spec == Init /\ [][Next]_vars

\* ----------------------------------------- one request fixed beforehand
\* The same program with the WhisperTranscriber as its Port, observed through
\* requests whose memory sample, filename and payload size are fixed before
\* they arrive.  The last request to arrive brings any of Given; the requests
\* before it are valid uploads, the load that brings the pool to every state
\* the last one can find it in.
ValidUpload == [mem_percent |-> 42, name |-> <<"a", ".", "w", "a", "v">>, size |-> 1]

GivenInit ==
    /\ Created
    /\ patched = FALSE
    /\ \E g \in Given :
         given = [r \in Requests |-> IF r = NumRequests THEN g ELSE ValidUpload]

GivenSpec == GivenInit /\ [][Next]_vars

\* ------------------------------------------- the exception handlers on their own
\* What a route of the application can raise.  transcribe_endpoint:
EndpointRaises ==
    { HTTPException(503, MEMORY_DETAIL, {}),
      HTTPException(415, UnsupportedDetail(<<".", "t", "x", "t">>), {}),
      HTTPException(413, SIZE_DETAIL, {}),
      HTTPException(503, BUSY_DETAIL, {RETRY_AFTER}),
      HTTPException(500, FAILED_DETAIL, {}) }

\* verify_api_key_optional:
DependencyRaises ==
    { HTTPException(403, MISSING_AUTH_DETAIL, {}),
      HTTPException(403, INVALID_SECRET_DETAIL, {}) }

\* An HTTPException without detail (the router's 404 for an unknown path), and
\* one whose detail is not a string.
OtherHTTPExceptions ==
    { HTTPException(404, Null, {}),
      HTTPException(403, <<OBJECT, "reason", "quota">>, {}) }

\* exc.errors() of a RequestValidationError: dicts with loc and msg, or without.
FIELD_REQUIRED == [loc |-> <<"body", "file">>, msg |-> <<"Field required">>]
BODY_INVALID == [loc |-> <<"body">>, msg |-> <<"Invalid multipart body">>]
HEADER_INVALID == [loc |-> <<"header", "x-rapidapi-user">>, msg |-> <<"Invalid header">>]
BARE_ERROR == [loc |-> Missing, msg |-> Missing]

ValidationErrors ==
    { RequestValidationError(errors) :
        errors \in { <<>>, <<FIELD_REQUIRED>>, <<BODY_INVALID>>, <<BARE_ERROR>>,
                     <<FIELD_REQUIRED, HEADER_INVALID>>, <<BODY_INVALID, BARE_ERROR>> } }

Unclassified == {[cls |-> c, msg |-> m] : c \in ExcClasses, m \in Messages}

Raisable ==
    EndpointRaises \cup DependencyRaises \cup OtherHTTPExceptions
    \cup ValidationErrors \cup Unclassified

HandlerInit == Init /\ patched = FALSE

\* Request r ends with exception e escaping its route (or raised while its
\* parameters are resolved); the handler registered for the class of e answers.
RaiseInRoute(r) ==
    /\ app_state # "failed"
    /\ pc[r] = "idle"
    /\ r > 1 => pc[r - 1] # "idle"
    /\ \E e \in Raisable :
         /\ exc' = [exc EXCEPT ![r] = e]
         /\ resp' = [resp EXCEPT ![r] = ExceptionResponse(e)]
    /\ pc' = [pc EXCEPT ![r] = "raised"]
    /\ UNCHANGED <<app_state, sem, initialized, patched, METRICS, acquired, releases,
                   records, calls, returned, worker, given, history, probe>>

HandlerNext == \E r \in Requests : RaiseInRoute(r)

HandlerSpec == HandlerInit /\ [][HandlerNext]_vars

\* ------------------------------------------- the metrics store on its own
\* A sequence of calls _metrics_record_request(accepted, duration_ms) on the
\* all-zero store, with any arguments.
MetricsInit == Init /\ patched = FALSE

RecordCall ==
    /\ METRICS.total_requests < MaxRecords
    /\ \E accepted \in BOOLEAN, duration_ms \in Durations :
         Recorded(1, accepted, duration_ms)
    /\ UNCHANGED <<app_state, sem, initialized, patched, pc, resp, exc, acquired,
                   releases, calls, returned, worker, given, history, probe>>

MetricsNext == RecordCall

MetricsSpec == MetricsInit /\ [][MetricsNext]_vars

\* ------------------------------------------------- requests with their headers
\* POST /v1/transcribe as the client sends it: FastAPI resolves the dependency
\* verify_api_key_optional first and calls the endpoint only when it returned.
\* Each request brings the RAPIDAPI_PROXY_SECRET of the environment at its
\* time (Null: not configured), its X-RapidAPI-Proxy-Secret and X-RapidAPI-User
\* headers (Null: absent) and a valid upload.
SECRET == <<"a-secure-secret-for-testing">>
WRONG == <<"this-is-the-wrong-secret">>

AuthGiven ==
    [mem_percent : {42}, name : {<<"a", ".", "w", "a", "v">>}, size : {1},
     env_secret : {Null, SECRET},
     secret_header : {Null, EMPTY, WRONG, SECRET},
     user_header : {Null, <<"test-user">>}]

AuthInit == Created /\ given \in [Requests -> AuthGiven]

Post(r) ==
    /\ app_state # "failed"
    /\ pc[r] = "idle"
    /\ r > 1 => pc[r - 1] # "idle"
    /\ LET auth_info == verify_api_key_optional(given[r].secret_header,
                                                given[r].user_header, given[r].env_secret)
       IN  IF auth_info.ok
           THEN Arrive(r)
           ELSE /\ pc' = [pc EXCEPT ![r] = "rejected_auth"]
                /\ resp' = [resp EXCEPT ![r] = ExceptionResponse(auth_info.exc)]
                /\ UNCHANGED <<app_state, sem, initialized, patched, METRICS, exc, acquired,
                               releases, records, calls, returned, worker, given, history, probe>>

AuthNext == \E r \in Requests : Post(r)

AuthSpec == AuthInit /\ [][AuthNext]_vars

\* ------------------------------------------------- the read endpoints, watched
\* The program with a client that watches the answers of GET /health and
\* GET /metrics, and an in-process caller of get_metrics() that writes into
\* the dict it got.  The stock WhisperTranscriber, valid uploads.
HealthSamples == {42, MAX_MEMORY_THRESHOLD + 1}

\* GET /health: the handler of health_check, with its answer.
GetHealth ==
    /\ app_state # "failed"
    /\ sem' = _ensure_semaphore(sem)
    /\ \E memory_percent \in HealthSamples :
          probe' = [kind |-> "health",
                    resp |-> JSONResponse(200, [status |-> "ok",
                                                memory_percent |-> memory_percent,
                                                active_tasks |-> current_active_tasks(sem)])]
    /\ UNCHANGED <<app_state, initialized, patched, METRICS, pc, resp, exc, acquired,
                   releases, records, calls, returned, worker, given, history>>

\* GET /metrics: return get_metrics()
GetMetrics ==
    /\ app_state # "failed"
    /\ LET snapshot == get_metrics(METRICS)
       IN  probe' = [kind |-> "metrics", resp |-> JSONResponse(200, snapshot.value),
                     snapshot |-> snapshot]
    /\ UNCHANGED <<app_state, sem, initialized, patched, METRICS, pc, resp, exc, acquired,
                   releases, records, calls, returned, worker, given, history>>

\* snapshot["total_requests"] = TAMPERED, on the dict get_metrics() returned
TAMPERED == 999

ModifySnapshot ==
    /\ probe.kind = "metrics"
    /\ probe' = [probe EXCEPT !.kind = "modified",
                              !.snapshot.value.total_requests = TAMPERED]
    /\ METRICS' = IF probe.snapshot.is_store
                  THEN [METRICS EXCEPT !.total_requests = TAMPERED]
                  ELSE METRICS
    /\ UNCHANGED <<app_state, sem, initialized, patched, pc, resp, exc, acquired,
                   releases, records, calls, returned, worker, given, history>>

ProbeInit ==
    /\ Created
    /\ patched = FALSE
    /\ given = [r \in Requests |-> ValidUpload]

ProbeNext ==
    \/ Startup
    \/ GetHealth
    \/ GetMetrics
    \/ ModifySnapshot
    \/ \E r \in Requests : Arrive(r)
    \/ \E r \in Requests : ReadPayload(r)
    \/ \E r \in Requests : AcquireResume(r)
    \/ \E r \in Requests : AcquireTimeout(r)
    \/ \E r \in Requests : TranscribeDone(r)

ProbeSpec == ProbeInit /\ [][ProbeNext]_vars

\* ------------------------------------------------- get_user_context on its own
\* The dependency called as the route of tests/unit/test_dependencies.py calls
\* it: with the RAPIDAPI_PROXY_SECRET of the environment at that moment and the
\* three headers of the request.  probe keeps the last call and its outcome.
TEST_SECRET == <<"test-secret">>
TEST_WRONG == <<"wrong">>
TEST_USER == <<"test-user">>
PRO == <<"PRO">>

ContextCalls ==
    [env_secret : {Null, EMPTY, TEST_SECRET},
     secret_header : {Null, EMPTY, TEST_WRONG, TEST_SECRET},
     user_header : {Null, EMPTY, TEST_USER},
     subscription_header : {Null, EMPTY, PRO}]

GetUserContext ==
    /\ \E c \in ContextCalls :
          probe' = [kind |-> "user_context", call |-> c,
                    out |-> get_user_context(c.secret_header, c.user_header,
                                             c.subscription_header, c.env_secret)]
    /\ UNCHANGED <<app_state, sem, initialized, patched, METRICS, pc, resp, exc, acquired,
                   releases, records, calls, returned, worker, given, history>>

ContextInit == Init /\ patched = FALSE

ContextNext == GetUserContext

ContextSpec == ContextInit /\ [][ContextNext]_vars

\* ------------------------------------------------- requests that end before the route
\* FastAPI resolves the parameters of POST /v1/transcribe before it calls
\* transcribe_endpoint: the dependency verify_api_key_optional first, then the
\* form field `file`.  A request whose dependency raised, or whose body has no
\* file field, is answered by the registered handler and the route body does
\* not run for it; the other requests go through the endpoint as in Next.
HeaderValues == {Null, EMPTY, WRONG, SECRET}

\* What verify_api_key_optional raises, over the headers and the environment.
DependencyOutcomes ==
    {verify_api_key_optional(h, u, e) :
        h \in HeaderValues, u \in {Null, <<"test-user">>}, e \in {Null, SECRET}}

BeforeRoute ==
    {out.exc : out \in {o \in DependencyOutcomes : ~o.ok}}
    \cup DependencyRaises
    \cup {RequestValidationError(<<FIELD_REQUIRED>>)}

\* Faulty variant: the rejection is counted in the metrics.
RejectedBeforeRoute_recorded(r) ==
    /\ app_state # "failed"
    /\ pc[r] = "idle"
    /\ r > 1 => pc[r - 1] # "idle"
    /\ \E e \in BeforeRoute : resp' = [resp EXCEPT ![r] = ExceptionResponse(e)]
    /\ pc' = [pc EXCEPT ![r] = "rejected_before_route"]
    /\ Recorded(r, FALSE, 0)
    /\ UNCHANGED <<app_state, sem, initialized, patched, exc, acquired, releases,
                   calls, returned, worker, given, history, probe>>

RejectedBeforeRoute(r) ==
    /\ app_state # "failed"
    /\ pc[r] = "idle"
    /\ r > 1 => pc[r - 1] # "idle"
    /\ \E e \in BeforeRoute : resp' = [resp EXCEPT ![r] = ExceptionResponse(e)]
    /\ pc' = [pc EXCEPT ![r] = "rejected_before_route"]
    /\ UNCHANGED <<app_state, sem, initialized, patched, METRICS, exc, acquired, releases,
                   records, calls, returned, worker, given, history, probe>>

EntryInit ==
    /\ Created
    /\ patched = FALSE
    /\ given = [r \in Requests |-> ValidUpload]

EntryNext ==
    \/ Startup
    \/ \E r \in Requests : RejectedBeforeRoute(r)
    \/ \E r \in Requests : Arrive(r)
    \/ \E r \in Requests : ReadPayload(r)
    \/ \E r \in Requests : AcquireResume(r)
    \/ \E r \in Requests : AcquireTimeout(r)
    \/ \E r \in Requests : TranscribeDone(r)

EntrySpec == EntryInit /\ [][EntryNext]_vars

\* ------------------------------------------------- the WhisperTranscriber alone
\* A caller that uses the WhisperTranscriber object directly: initialize(),
\* cleanup() and transcribe() in any order, one call at a time, at most
\* MaxPortCalls calls.  Every call is logged with the readiness it found and
\* the readiness it left.
NOT_INITIALIZED == [cls |-> "RuntimeError", msg |-> <<"Transcriber not initialized">>]

NoRaw == [ok |-> TRUE, value |-> <<"<not called>">>]

\* raw is how the backend call of a transcribe() ended (NoRaw: it was not
\* made), file what became of the temporary file ("none": there was none) and
\* unlinks the number of unlink() calls made on it.
LoggedCall(op, after, out, checked, raw, file, unlinks) ==
    history' = Append(history, [op |-> op, before |-> initialized, after |-> after,
                                ok |-> out.ok, checked |-> checked,
                                exc |-> IF out.ok THEN NoExc ELSE out.exc,
                                raw |-> raw, file |-> file, unlinks |-> unlinks])

Logged(op, after, out, checked) == LoggedCall(op, after, out, checked, NoRaw, "none", 0)

PortInitialize ==
    \E io \in initialize :
        /\ initialized' = io.initialized
        /\ Logged("initialize", io.initialized, io, io.checked)

PortCleanup ==
    /\ initialized' = cleanup
    /\ Logged("cleanup", cleanup, Return(Null), FALSE)

\* A whole transcribe() call: the readiness check and the temporary file, then
\* the thread and the handling of what it raises.
PortTranscribe ==
    /\ \E so \in transcribe_start(initialized) :
          IF ~so.ok
          THEN LoggedCall("transcribe", initialized, so, FALSE, NoRaw, FileOf(so), 0)
          ELSE \E raw \in BackendOutcomes, file \in unlink :
                 LoggedCall("transcribe", initialized,
                            WrapBackendError(_run_transcription(raw)), FALSE, raw, file, 1)
    /\ UNCHANGED initialized

PortInit == Init /\ patched = FALSE

PortNext ==
    /\ Len(history) < MaxPortCalls
    /\ \/ PortInitialize
       \/ PortCleanup
       \/ PortTranscribe
    /\ UNCHANGED <<app_state, sem, patched, METRICS, pc, resp, exc, acquired, releases,
                   records, calls, returned, worker, given, probe>>

PortSpec == PortInit /\ [][PortNext]_vars

\* ------------------------------------------------- the program under fair scheduling
\* The event loop runs every task that is ready: file.read() completes, a woken
\* waiter resumes, the timer of wait_for fires while the request still waits.
\* That every backend call terminates (the thread of transcribe() returns or
\* raises) is assumed.  Requests need not arrive; the load is NumRequests.
Fairness ==
    \A r \in Requests :
        /\ WF_vars(ReadPayload(r))
        /\ WF_vars(AcquireResume(r) \/ AcquireTimeout(r))
        /\ WF_vars(TranscribeDone(r))

\* The stock WhisperTranscriber; the last request to arrive is a valid upload or
\* one that a guard rejects, the requests before it are valid uploads.
FairGiven ==
    {ValidUpload,
     [ValidUpload EXCEPT !.mem_percent = 96],
     [ValidUpload EXCEPT !.name = <<"b", ".", "t", "x", "t">>],
     [ValidUpload EXCEPT !.size = MAX_FILE_SIZE_BYTES + 1]}

FairInit ==
    /\ Created
    /\ patched = FALSE
    /\ \E g \in FairGiven :
          given = [r \in Requests |-> IF r = NumRequests THEN g ELSE ValidUpload]

FairSpec == FairInit /\ [][Next]_vars /\ Fairness

\* ------------------------------------------------- cancelled requests
\* The same program when the task that serves a request can be cancelled (the
\* server gives up the request: client gone, shutdown).  The CancelledError is
\* thrown into the coroutine at the await it is suspended in; it is a
\* BaseException, so no except clause of the endpoint or of transcribe()
\* catches it: only the finally clauses run, no metrics are recorded and no
\* response is built.
\*   await file.read()              nothing is held yet
\*   await wait_for(sem.acquire())  acquire() is cancelled, there is no permit to release
\*   await asyncio.to_thread(...)   the thread cannot be interrupted and runs on;
\*                                  `finally: sem.release()` runs at once
CANCELLED == [cls |-> "CancelledError", msg |-> <<>>]

Cancel(r) ==
    /\ pc[r] \in {"reading", "waiting", "transcribing"}
    /\ pc' = [pc EXCEPT ![r] = "cancelled"]
    /\ exc' = [exc EXCEPT ![r] = CANCELLED]
    /\ sem' = CASE pc[r] = "reading"      -> sem
                [] pc[r] = "waiting"      -> sem_acquire_cancel(sem, r)
                [] pc[r] = "transcribing" -> sem_release(sem)
    /\ releases' = [releases EXCEPT ![r] = IF pc[r] = "transcribing" THEN @ + 1 ELSE @]
    /\ UNCHANGED <<app_state, initialized, patched, METRICS, resp, acquired, records,
                   calls, returned, worker, given, history, probe>>

\* _run_transcription returns in its thread after the request was cancelled:
\* nobody awaits the result any more.
WorkerEnds(r) ==
    /\ pc[r] = "cancelled"
    /\ worker[r] = "running"
    /\ worker' = [worker EXCEPT ![r] = "finished"]
    /\ UNCHANGED <<app_state, sem, initialized, patched, METRICS, pc, resp, exc, acquired,
                   releases, records, calls, returned, given, history, probe>>

CancelInit == Init /\ patched = FALSE

CancelNext ==
    \/ Next
    \/ \E r \in Requests : Cancel(r)
    \/ \E r \in Requests : WorkerEnds(r)

CancelSpec == CancelInit /\ [][CancelNext]_vars

\* ------------------------------------------------------------- properties
Done(r) == pc[r] \in Terminal
Holders == {r \in Requests : acquired[r] /\ releases[r] = 0}
Held == Cardinality(Holders)
Woken == IF sem = NoSem THEN {} ELSE sem.woken
Available == IF sem = NoSem THEN MAX_CONCURRENT_JOBS ELSE sem.value
InQueue(r) == \E i \in 1..Len(sem.waiters) : sem.waiters[i] = r

\* C1: the number of requests between a successful acquire and their release
\* is never below 0 nor above MAX_CONCURRENT_JOBS, and the counter of the
\* semaphore accounts for exactly these requests and the waiters already woken.
C1_PermitsWithinCapacity ==
    /\ Held >= 0
    /\ Held <= MAX_CONCURRENT_JOBS
    /\ Available >= 0
    /\ Available <= MAX_CONCURRENT_JOBS
    /\ Held + Cardinality(Woken) = MAX_CONCURRENT_JOBS - Available

C1_Witness ==
    /\ Held = MAX_CONCURRENT_JOBS
    /\ \E r \in Requests : pc[r] = "waiting"

\* C2: a request that acquired a permit has released exactly one when it is
\* over, whatever the outcome of the protected section; a request releases
\* at most once, and never without having acquired.
C2_ReleaseMatchesAcquire ==
    \A r \in Requests :
        /\ releases[r] <= 1
        /\ releases[r] = 1 => acquired[r]
        /\ Done(r) => releases[r] = (IF acquired[r] THEN 1 ELSE 0)
        /\ (exc[r] # NoExc \/ (Done(r) /\ resp[r].status = 200)) => releases[r] = 1

\* One state shows the exit paths side by side: an exception the endpoint does
\* not catch, a success, and a request that timed out without a permit.
C2_Witness ==
    \E a, b, c \in Requests :
        /\ exc[a].cls = "KeyError" /\ releases[a] = 1
        /\ pc[b] = "done" /\ resp[b].status = 200 /\ releases[b] = 1
        /\ pc[c] = "timed_out" /\ releases[c] = 0

\* C3: once every request that arrived is over, no permit is held: all
\* MAX_CONCURRENT_JOBS permits are available and nobody is queued.
C3_NoPermitLeak ==
    (\A r \in Requests : pc[r] = "idle" \/ Done(r)) =>
        /\ Held = 0
        /\ Available = MAX_CONCURRENT_JOBS
        /\ sem.waiters = <<>>
        /\ Woken = {}

C3_Witness ==
    /\ \A r \in Requests : Done(r)
    /\ \E r \in Requests : pc[r] = "timed_out"
    /\ \E r \in Requests : exc[r] # NoExc
    /\ \E r \in Requests : resp[r].status = 200

Pending(r) == pc[r] = "waiting" /\ r \notin sem.woken

FirstPending(s) ==
    s.waiters[CHOOSE k \in PendingWaiters(s) : \A j \in PendingWaiters(s) : k <= j]

C5_WaiterStep ==
    /\ \A w \in Requests :
         Pending(w) =>
           \/ pc'[w] = "waiting" /\ w \notin sem'.woken
           \/ /\ pc'[w] = "waiting" /\ w \in sem'.woken
              /\ \E h \in Requests \ {w} :
                   \/ releases'[h] = releases[h] + 1
                   \/ h \in sem.woken /\ pc'[h] # "waiting"
           \/ /\ pc'[w] = "timed_out"
              /\ ~acquired'[w]
              /\ resp'[w].status = 503
    /\ \A h \in Requests :
         (releases'[h] = releases[h] + 1 /\ PendingWaiters(sem) # {}) =>
             FirstPending(sem) \in sem'.woken
    /\ Held' <= MAX_CONCURRENT_JOBS

C5_BoundedWaitOrGrant == [][C5_WaiterStep]_vars

\* A permit was released during the wait of a queued request and handed to it.
C5_Witness ==
    \E w, h \in Requests :
        /\ pc[w] = "waiting" /\ w \in sem.woken
        /\ releases[h] = 1
        /\ Held = MAX_CONCURRENT_JOBS - 1

\* C6: a request whose wait for a permit timed out is answered 503 with the
\* envelope {error: "Service Unavailable", code: 503, details: <message>};
\* it holds no permit, is not queued any more, and no Port call was made for it.
C6_TimeoutRejection ==
    \A r \in Requests :
        pc[r] = "timed_out" =>
            /\ resp[r].status = 503
            /\ resp[r].body = [error |-> "Service Unavailable", code |-> 503,
                               details |-> BUSY_DETAIL]
            /\ ~acquired[r]
            /\ r \notin Holders
            /\ r \notin Woken
            /\ ~InQueue(r)
            /\ calls[r] = <<>>

C6_Witness ==
    \E r \in Requests :
        /\ pc[r] = "timed_out"
        /\ Held = MAX_CONCURRENT_JOBS

\* C7: the response of a request rejected by admission timeout carries the
\* header Retry-After: 30.
C7_RetryAfterOnTimeout ==
    \A r \in Requests : pc[r] = "timed_out" => RETRY_AFTER \in resp[r].headers

Fragments(s) == {s[i] : i \in 1..Len(s)}

\* An exception that escapes a route reaches the registered handlers as it is.
HandlersIgnoreMessage ==
    \A c \in ExcClasses : \A m1, m2 \in Messages :
        LET r1 == ExceptionResponse([cls |-> c, msg |-> m1])
            r2 == ExceptionResponse([cls |-> c, msg |-> m2])
        IN  /\ r1 = r2
            /\ r1.status = 500
            /\ Fragments(r1.body.details) \cap Fragments(m1) = {}

C9_BodyIndependentOfMessage ==
    /\ \A r \in Requests :
         exc[r] # NoExc =>
            /\ resp[r].status = 500
            /\ Fragments(resp[r].body.details) \cap Fragments(exc[r].msg) = {}
    /\ \A a, b \in Requests :
         (exc[a] # NoExc /\ exc[b] # NoExc /\ exc[a].cls = exc[b].cls) =>
             resp[a].body = resp[b].body
    /\ HandlersIgnoreMessage

C9_Witness ==
    \E a, b, c \in Requests :
        /\ exc[a].cls = "ValueError" /\ exc[b].cls = "ValueError"
        /\ exc[a].msg # exc[b].msg
        /\ exc[c].cls = "KeyError"

\* C10: every request that reached a terminal outcome made exactly one call
\* of the metrics record operation, with duration 0 when it was rejected
\* before it held a permit.
C10_ExactlyOneRecord ==
    \A r \in Requests :
        Done(r) =>
            /\ Len(records[r]) = 1
            /\ ~acquired[r] => records[r][1].duration_ms = 0

\* C11: after any sequence of record operations on the all-zero store,
\* accepted_requests + rejected_requests = total_requests (the number of calls
\* made) and avg_processing_time_ms >= 0.
C11_MetricsConsistent ==
    /\ METRICS.accepted_requests + METRICS.rejected_requests = METRICS.total_requests
    /\ METRICS.total_requests = Len(records[1])
    /\ METRICS.avg_processing_time_ms.num >= 0
    /\ METRICS.avg_processing_time_ms.den > 0

\* Accepted and rejected calls were made, the last one with a negative duration
\* that pulls the running average below zero.
C11_Witness ==
    /\ METRICS.accepted_requests > 0
    /\ METRICS.rejected_requests > 0
    /\ Len(records[1]) = MaxRecords
    /\ records[1][1].duration_ms > 0
    /\ records[1][MaxRecords].duration_ms < 0
    /\ METRICS.avg_processing_time_ms = ZERO

\* C20: no update of the metrics store is lost, however the requests in flight
\* interleave: at every moment total_requests is the number of record calls
\* completed so far, and accepted_requests and rejected_requests are the
\* numbers of those calls made with accepted = true and accepted = false.
RECURSIVE SumOver(_, _)
SumOver(f, S) ==
    IF S = {} THEN 0
    ELSE LET x == CHOOSE y \in S : TRUE IN f[x] + SumOver(f, S \ {x})

RecordCalls(accepted) ==
    SumOver([r \in Requests |->
                Cardinality({i \in 1..Len(records[r]) : records[r][i].accepted = accepted})],
            Requests)

C20_NoLostUpdate ==
    /\ METRICS.total_requests = RecordCalls(TRUE) + RecordCalls(FALSE)
    /\ METRICS.accepted_requests = RecordCalls(TRUE)
    /\ METRICS.rejected_requests = RecordCalls(FALSE)

\* Requests that overlapped have recorded: one timed out while waiting for the
\* permit another one held, one was accepted, one is still transcribing.
C20_Witness ==
    \E a, b, c \in Requests :
        /\ pc[a] = "done" /\ records[a] # <<>> /\ records[a][1].accepted
        /\ pc[b] = "timed_out" /\ records[b] # <<>>
        /\ pc[c] = "transcribing"
        /\ METRICS.total_requests = 2

\* C19 (as claimed): the active_tasks value GET /health reports is
\* MAX_CONCURRENT_JOBS minus the available permits, lies between 0 and
\* MAX_CONCURRENT_JOBS, and is the number of requests between a successful
\* acquire and their release.
C19_ActiveTasksAreHolders ==
    /\ current_active_tasks(sem) = MAX_CONCURRENT_JOBS - Available
    /\ current_active_tasks(sem) >= 0
    /\ current_active_tasks(sem) <= MAX_CONCURRENT_JOBS
    /\ current_active_tasks(sem) = Held

\* C19 (amended): the active_tasks value GET /health reports is
\* MAX_CONCURRENT_JOBS minus the available permits and lies between 0 and
\* MAX_CONCURRENT_JOBS; it counts the requests between a successful acquire and
\* their release plus the queued requests that a release has handed a permit
\* to and that have not run again yet, so it equals the number of holders
\* whenever no waiter is in that position.
C19_ActiveTasksArePermitsInUse ==
    /\ current_active_tasks(sem) = MAX_CONCURRENT_JOBS - Available
    /\ current_active_tasks(sem) >= 0
    /\ current_active_tasks(sem) <= MAX_CONCURRENT_JOBS
    /\ current_active_tasks(sem) = Held + Cardinality(Woken)
    /\ Woken = {} => current_active_tasks(sem) = Held

\* A permit was released while a request was queued: the permit is reserved
\* for the waiter, which has not resumed.
C19_Witness ==
    /\ Woken # {}
    /\ Held < MAX_CONCURRENT_JOBS
    /\ current_active_tasks(sem) = MAX_CONCURRENT_JOBS

\* The requests whose memory sample, filename and payload size are fixed.
Fixed == {r \in Requests : given[r] # Open}

\* The request r has just left the stage `from` of the endpoint.
Leaves(r, from) == pc[r] = from /\ pc'[r] # from

\* C12: a request that meets a memory sample above MAX_MEMORY_THRESHOLD at
\* entry is rejected with 503 whatever its filename, its payload size and the
\* state of the pool: it never calls file.read(), never acquires or queues for
\* a permit, no Port call is made for it, and the step that rejects it leaves
\* the pool untouched and adds exactly one rejected request to the metrics.
C12_State ==
    \A r \in Fixed :
        given[r].mem_percent > MAX_MEMORY_THRESHOLD =>
            /\ pc[r] \in {"idle", "rejected_memory"}
            /\ ~acquired[r]
            /\ calls[r] = <<>>
            /\ ~InQueue(r)

C12_Step ==
    \A r \in Requests :
        (Leaves(r, "idle") /\ given[r] # Open
                           /\ given[r].mem_percent > MAX_MEMORY_THRESHOLD) =>
                 /\ pc'[r] = "rejected_memory"
                 /\ resp'[r].status = 503
                 /\ resp'[r].body = [error |-> "Service Unavailable", code |-> 503,
                                     details |-> MEMORY_DETAIL]
                 /\ sem' = sem
                 /\ records'[r] = <<[accepted |-> FALSE, duration_ms |-> 0]>>
                 /\ METRICS'.total_requests = METRICS.total_requests + 1
                 /\ METRICS'.rejected_requests = METRICS.rejected_requests + 1
                 /\ METRICS'.accepted_requests = METRICS.accepted_requests

C12_MemoryGuardFirst == []C12_State /\ [][C12_Step]_vars

\* A request with an allowed filename and a small payload is rejected for
\* memory while every permit is taken.
C12_Witness ==
    \E r \in Fixed :
        /\ given[r].mem_percent > MAX_MEMORY_THRESHOLD
        /\ Suffix(given[r].name) \in ALLOWED_EXTENSIONS
        /\ given[r].size <= MAX_FILE_SIZE_BYTES
        /\ pc[r] = "rejected_memory"
        /\ Held = MAX_CONCURRENT_JOBS

\* C13: a request that reaches the extension check passes it if and only if
\* its filename has a "." and the lower-cased text after the last "." is one
\* of mp3, wav, m4a, flac, webm, mp4, avi, mov; a filename without ".", a
\* missing filename and a filename ending in "." are rejected.  A rejection is
\* 415 with details containing "Unsupported"; it happens at entry, before
\* file.read(), leaves the pool untouched and makes no Port call.
AllowedTypes ==
    { <<"m", "p", "3">>, <<"w", "a", "v">>, <<"m", "4", "a">>, <<"f", "l", "a", "c">>,
      <<"w", "e", "b", "m">>, <<"m", "p", "4">>, <<"a", "v", "i">>, <<"m", "o", "v">> }

ExtensionAllowed(name) == HasDot(name) /\ Lower(LastSegment(name)) \in AllowedTypes

C13_State ==
    \A r \in Fixed :
        (given[r].mem_percent <= MAX_MEMORY_THRESHOLD /\ pc[r] # "idle") =>
            /\ pc[r] # "rejected_extension" <=> ExtensionAllowed(given[r].name)
            /\ pc[r] = "rejected_extension" =>
                 /\ resp[r].status = 415
                 /\ resp[r].body.error = "Unsupported Media Type"
                 /\ resp[r].body.code = 415
                 /\ "Unsupported" \in Fragments(resp[r].body.details)
                 /\ ~acquired[r]
                 /\ calls[r] = <<>>
                 /\ ~InQueue(r)

C13_Step ==
    \A r \in Requests :
        (pc'[r] = "rejected_extension" /\ pc[r] # "rejected_extension") =>
            /\ pc[r] = "idle"
            /\ sem' = sem

C13_ExtensionCheck == []C13_State /\ [][C13_Step]_vars

\* The name "wav" has no ".": it is rejected although permits are free.
C13_Witness ==
    \E r \in Fixed :
        /\ given[r].name = <<"w", "a", "v">>
        /\ pc[r] = "rejected_extension"
        /\ Available = MAX_CONCURRENT_JOBS
        /\ \E q \in Requests : pc[q] = "done" /\ resp[q].status = 200

\* C14: a request whose payload, once file.read() has returned it, is longer
\* than MAX_FILE_SIZE_BYTES is rejected with 413 and a details string, without
\* acquiring or queueing for a permit and without a Port call; a payload of
\* exactly MAX_FILE_SIZE_BYTES bytes passes the size check.
PastRead(r) ==
    pc[r] \in {"rejected_size", "waiting", "transcribing", "timed_out", "done"}

C14_State ==
    \A r \in Fixed :
        PastRead(r) =>
            /\ pc[r] = "rejected_size" <=> given[r].size > MAX_FILE_SIZE_BYTES
            /\ pc[r] = "rejected_size" =>
                 /\ resp[r].status = 413
                 /\ resp[r].body = [error |-> "Request Entity Too Large", code |-> 413,
                                    details |-> SIZE_DETAIL]
                 /\ resp[r].body.details # Null
                 /\ ~acquired[r]
                 /\ calls[r] = <<>>
                 /\ ~InQueue(r)
                 /\ records[r] = <<[accepted |-> FALSE, duration_ms |-> 0]>>

C14_Step ==
    \A r \in Requests :
        (pc'[r] = "rejected_size" /\ pc[r] # "rejected_size") =>
            /\ pc[r] = "reading"
            /\ sem' = sem

C14_SizeLimit == []C14_State /\ [][C14_Step]_vars

\* A payload one byte over the limit is rejected while permits are free.
C14_Witness ==
    \E r \in Fixed :
        /\ given[r].size = MAX_FILE_SIZE_BYTES + 1
        /\ pc[r] = "rejected_size"
        /\ sem # NoSem
        /\ Available > 0

\* C18: a request with memory at or below the threshold, an allowed extension
\* and a payload within the size limit is never rejected by a guard; when a
\* permit is available as it asks for one it is admitted without waiting; and
\* when transcribe() returns a text to it, it is answered 200 with body
\* {"text": <that text>}, the step that completes it adds exactly one accepted
\* request with a positive duration to the metrics, and it has released its
\* permit.
Valid(r) ==
    /\ given[r].mem_percent <= MAX_MEMORY_THRESHOLD
    /\ ExtensionAllowed(given[r].name)
    /\ given[r].size <= MAX_FILE_SIZE_BYTES

C18_State ==
    \A r \in Fixed :
        Valid(r) =>
            /\ pc[r] \notin {"rejected_memory", "rejected_extension", "rejected_size"}
            /\ (pc[r] = "done" /\ resp[r].status = 200) => returned[r] # Null
            /\ (pc[r] = "done" /\ returned[r] # Null) =>
                 /\ resp[r].status = 200
                 /\ resp[r].body = [text |-> returned[r]]
                 /\ Len(records[r]) = 1
                 /\ records[r][1].accepted
                 /\ records[r][1].duration_ms > 0
                 /\ acquired[r]
                 /\ releases[r] = 1
                 /\ r \notin Holders

C18_Step ==
    \A r \in Requests :
        /\ (Leaves(r, "reading") /\ given[r] # Open
                                 /\ Valid(r) /\ ~locked(_ensure_semaphore(sem))) =>
                 /\ acquired'[r]
                 /\ pc'[r] \in {"transcribing", "done"}
        /\ (pc'[r] = "done" /\ pc[r] # "done" /\ given[r] # Open
                              /\ Valid(r) /\ returned'[r] # Null) =>
                 /\ METRICS'.total_requests = METRICS.total_requests + 1
                 /\ METRICS'.accepted_requests = METRICS.accepted_requests + 1
                 /\ METRICS'.rejected_requests = METRICS.rejected_requests
                 /\ Held' = Held - 1

C18_HappyPath == []C18_State /\ [][C18_Step]_vars

\* Memory at 42 %, a.wav, a small payload, a permit free: 200 with the text.
C18_Witness ==
    \E r \in Fixed :
        /\ given[r].mem_percent = 42
        /\ given[r].name = <<"a", ".", "w", "a", "v">>
        /\ given[r].size = 1
        /\ pc[r] = "done"
        /\ resp[r] = JSONResponse(200, [text |-> <<"hello world">>])
        /\ METRICS.accepted_requests = 1
        /\ Available = MAX_CONCURRENT_JOBS

\* C15: every failure response has a JSON body with exactly the keys error,
\* code and details; code is the HTTP status of the response, error is the
\* standard phrase of that status, and details is exactly one of a string, a
\* list of strings and null.
StandardPhrase(code) ==
    CASE code = 400 -> "Bad Request"
      [] code = 403 -> "Forbidden"
      [] code = 404 -> "Not Found"
      [] code = 413 -> "Request Entity Too Large"
      [] code = 415 -> "Unsupported Media Type"
      [] code = 500 -> "Internal Server Error"
      [] code = 503 -> "Service Unavailable"

DetailsKinds(d) ==
    {k \in {"string", "list", "null"} :
        \/ k = "string" /\ IsStr(d)
        \/ k = "list" /\ IsList(d)
        \/ k = "null" /\ IsNone(d)}

C15_ErrorEnvelope ==
    \A r \in Requests :
        pc[r] = "raised" =>
            /\ resp[r].status >= 400
            /\ DOMAIN resp[r].body = {"error", "code", "details"}
            /\ resp[r].body.code = resp[r].status
            /\ resp[r].body.error = StandardPhrase(resp[r].status)
            /\ Cardinality(DetailsKinds(resp[r].body.details)) = 1

\* The three kinds side by side: an HTTPException whose detail is no string, a
\* validation error, an unclassified exception.
C15_Witness ==
    \E a, b, c \in Requests :
        /\ pc[a] = "raised" /\ exc[a].cls = "HTTPException" /\ IsObject(exc[a].detail)
        /\ IsStr(resp[a].body.details)
        /\ pc[b] = "raised" /\ exc[b].cls = "RequestValidationError"
        /\ IsList(resp[b].body.details)
        /\ pc[c] = "raised" /\ exc[c].cls = "KeyError"
        /\ IsNone(resp[c].body.details)

\* C16: a request-validation error is answered 400 with error "Bad Request",
\* code 400 and details a non-empty list of strings, one item per reported
\* error, and one item too when the error reports no individual errors.
C16_ValidationIs400 ==
    \A r \in Requests :
        (pc[r] = "raised" /\ exc[r].cls = "RequestValidationError") =>
            /\ resp[r].status = 400
            /\ resp[r].body.error = "Bad Request"
            /\ resp[r].body.code = 400
            /\ IsList(resp[r].body.details)
            /\ ListLen(resp[r].body.details) >= 1
            /\ ListLen(resp[r].body.details) = Max(1, Len(exc[r].errors))

\* A validation error without individual errors next to the missing file part.
C16_Witness ==
    \E a, b \in Requests :
        /\ pc[a] = "raised" /\ exc[a] = RequestValidationError(<<>>)
        /\ resp[a].body.details = JsonList(<<STR_OF_NO_ERRORS>>)
        /\ pc[b] = "raised" /\ exc[b] = RequestValidationError(<<FIELD_REQUIRED>>)
        /\ resp[b].body.details = <<LIST_OPEN, ITEM, "file", ": ", "Field required", LIST_CLOSE>>

\* C17: an exception that is neither an HTTPException nor a request-validation
\* error and escapes a route is answered 500 with error "Internal Server
\* Error", code 500 and details null, whatever its class and message.
C17_UnclassifiedIs500 ==
    \A r \in Requests :
        (pc[r] = "raised" /\ exc[r].cls \notin {"HTTPException", "RequestValidationError"}) =>
            /\ resp[r].status = 500
            /\ resp[r].body = [error |-> "Internal Server Error", code |-> 500,
                               details |-> Null]

C17_Witness ==
    \E a, b \in Requests :
        /\ pc[a] = "raised" /\ exc[a].cls = "ValueError"
        /\ pc[b] = "raised" /\ exc[b].cls = "KeyError"
        /\ resp[a].status = 500 /\ resp[b].status = 500

\* C21: the timeout bounds only the wait for a permit.  A request that ended
\* with the admission timeout never held a permit (acquire() never returned to
\* it, it released nothing and called nothing), a request that holds a permit
\* never ends with the admission timeout, and a request inside transcribe()
\* keeps its permit in every step until transcribe() itself ends: the only
\* step that takes it out of transcribe() is the end of the backend call.
BusyResponse(r) == resp[r].status = 503 /\ resp[r].body.details = BUSY_DETAIL

C21_State ==
    \A r \in Requests :
        /\ pc[r] = "timed_out" =>
              ~acquired[r] /\ releases[r] = 0 /\ calls[r] = <<>> /\ BusyResponse(r)
        /\ pc[r] = "transcribing" =>
              /\ r \in Holders
              /\ resp[r] = NoResp
              /\ Available <= MAX_CONCURRENT_JOBS
                              - Cardinality({q \in Requests : pc[q] = "transcribing"})

C21_Step ==
    \A r \in Requests :
        /\ acquired[r] => pc'[r] # "timed_out"
        /\ (pc[r] = "transcribing" /\ pc'[r] # "transcribing") =>
              /\ TranscribeDone(r)
              /\ pc'[r] = "done"
              /\ releases'[r] = 1
              /\ resp'[r].status \in {200, 500}
        /\ (pc[r] = "transcribing" /\ pc'[r] = "transcribing") =>
              /\ acquired'[r] /\ releases'[r] = 0
              /\ resp'[r] = NoResp

C21_TimeoutBoundsOnlyTheWait == []C21_State /\ [][C21_Step]_vars

\* A request ended by the timeout while another one, holding its permit, is
\* still inside a transcribe() call that has not returned.
C21_Witness ==
    \E a, b \in Requests :
        /\ pc[a] = "timed_out"
        /\ pc[b] = "transcribing" /\ b \in Holders
        /\ Available = 0

\* C22: when an admitted request is cancelled while its transcription is
\* running, the permit of the request stays held until the delegated work has
\* finished (as long as the thread of a request runs, the request is a permit
\* holder, so no more than MAX_CONCURRENT_JOBS threads run), and the permit
\* is released exactly once.
Running == {r \in Requests : worker[r] = "running"}

C22_PermitHeldUntilWorkEnds ==
    /\ \A r \in Requests :
          /\ worker[r] = "running" => r \in Holders
          /\ (pc[r] = "cancelled" /\ acquired[r]) => releases[r] = 1
    /\ Cardinality(Running) <= MAX_CONCURRENT_JOBS

\* C23: under bounded load and with backend calls that terminate, a request
\* that waits for a permit does not wait for ever (it is granted the permit
\* or rejected with the admission timeout), and every request that arrived
\* reaches a terminal outcome: a response is there, and the permit, if it was
\* held, has been released.
Ended(r) ==
    /\ Done(r)
    /\ resp[r] # NoResp
    /\ acquired[r] => releases[r] = 1
    /\ ~acquired[r] => releases[r] = 0

C23_NoRequestWaitsForever ==
    \A r \in Requests :
        /\ (pc[r] = "waiting") ~> (acquired[r] \/ pc[r] = "timed_out")
        /\ (pc[r] # "idle") ~> Ended(r)

\* All requests have ended, one after a timed-out wait, one after holding a permit.
C23_Witness ==
    /\ \A r \in Requests : Ended(r)
    /\ \E a, b \in Requests :
          /\ pc[a] = "timed_out"
          /\ pc[b] = "done" /\ acquired[b] /\ resp[b].status = 200

\* C24: the permit pool is created at most once.  The first call of
\* _ensure_semaphore creates it with exactly MAX_CONCURRENT_JOBS permits and
\* no waiter; once it exists it is never replaced, every later call returns
\* it as it is, and a call from lifespan startup or from /health (the steps
\* that move no request) leaves its available permits and its queue unchanged.
NewPool == [value |-> MAX_CONCURRENT_JOBS, waiters |-> <<>>, woken |-> {}]

C24_State ==
    /\ _ensure_semaphore(NoSem) = NewPool
    /\ _ensure_semaphore(_ensure_semaphore(sem)) = _ensure_semaphore(sem)
    /\ sem # NoSem =>
          /\ _ensure_semaphore(sem) = sem
          /\ sem.value + Held + Cardinality(sem.woken) = MAX_CONCURRENT_JOBS
    /\ sem = NoSem => Held = 0

C24_Step ==
    /\ sem # NoSem => sem' # NoSem
    /\ (sem # NoSem /\ pc' = pc) => sem' = sem
    /\ (sem = NoSem /\ sem' # NoSem) =>
          /\ sem'.waiters = <<>> /\ sem'.woken = {}
          /\ sem'.value = MAX_CONCURRENT_JOBS
                          - Cardinality({r \in Requests : acquired'[r] /\ releases'[r] = 0})
          /\ pc' = pc => sem' = NewPool

C24_PoolCreatedOnce == []C24_State /\ [][C24_Step]_vars

\* The pool in use: every permit taken and a request queued, after startup.
C24_Witness ==
    /\ app_state = "running"
    /\ sem # NoSem /\ sem.value = 0 /\ Len(sem.waiters) > 0
    /\ Held = MAX_CONCURRENT_JOBS
    /\ _ensure_semaphore(sem) = sem

\* C25: initialize() is idempotent.  After a call of initialize() that
\* succeeded, every further call (with no cleanup() in between) returns
\* normally, does not run the dependency check and leaves the transcriber
\* initialized.
Calls == 1..Len(history)

Succeeded(i) == history[i].op = "initialize" /\ history[i].ok

\* a successful initialize() before call i, with no cleanup() since
ReadyAt(i) ==
    \E j \in Calls :
        /\ j < i /\ Succeeded(j)
        /\ \A k \in Calls : (j < k /\ k < i) => history[k].op # "cleanup"

C25_InitializeIdempotent ==
    \A i \in Calls :
        (history[i].op = "initialize" /\ ReadyAt(i)) =>
            /\ history[i].ok
            /\ ~history[i].checked
            /\ history[i].before /\ history[i].after
            /\ i = Len(history) => initialized

\* initialize() succeeded with the check, and two further calls followed it.
C25_Witness ==
    /\ Len(history) >= 3
    /\ \A i \in 1..3 : history[i].op = "initialize"
    /\ history[1].ok /\ history[1].checked
    /\ ~history[3].checked
    /\ initialized

\* C27: the WhisperTranscriber has two states.  It is initialized exactly
\* from a successful initialize() to the next cleanup(); transcribe() raises
\* RuntimeError("Transcriber not initialized") whenever it is called in the
\* other state (before the first successful initialize(), after a cleanup()),
\* and never raises that error when called in the initialized state.
C27_TwoStateLifecycle ==
    /\ initialized = ReadyAt(Len(history) + 1)
    /\ \A i \in Calls :
          /\ history[i].before = ReadyAt(i)
          /\ history[i].op = "cleanup" => ~history[i].after
          /\ history[i].op = "transcribe" =>
                /\ history[i].after = history[i].before
                /\ ~ReadyAt(i) => (~history[i].ok /\ history[i].exc = NOT_INITIALIZED)
                /\ ReadyAt(i) => history[i].exc # NOT_INITIALIZED

\* transcribe() refused, then allowed after initialize(), then refused again
\* after cleanup().
C27_Witness ==
    /\ Len(history) = 4
    /\ history[1].op = "initialize" /\ history[1].ok
    /\ history[2].op = "transcribe" /\ history[2].ok
    /\ history[3].op = "cleanup"
    /\ history[4].op = "transcribe" /\ history[4].exc = NOT_INITIALIZED

\* C26: in every admitted request transcribe() is called only after
\* initialize() has returned successfully earlier in the same request.  The
\* Port calls of a request are initialize() alone, when it raised, or
\* initialize() followed by transcribe(); only admitted requests call the
\* Port; and the WhisperTranscriber is initialized whenever the endpoint has
\* called its transcribe(), which therefore never answers "not initialized".
C26_State ==
    \A r \in Requests :
        /\ calls[r] \in {<<>>, <<"initialize">>, <<"initialize", "transcribe">>}
        /\ calls[r] # <<>> => acquired[r]
        /\ calls[r] = <<"initialize">> => (pc[r] = "done" /\ exc[r] # NoExc)
        /\ pc[r] = "transcribing" => calls[r] = <<"initialize", "transcribe">>
        /\ (Len(calls[r]) = 2 /\ ~patched) => (initialized /\ exc[r] # NOT_INITIALIZED)

C26_Step ==
    \A r \in Requests :
        (calls'[r] # calls[r]) =>
            /\ calls[r] = <<>> /\ calls'[r][1] = "initialize"
            /\ (Len(calls'[r]) = 2 /\ ~patched) => initialized'

C26_InitializeBeforeTranscribe == []C26_State /\ [][C26_Step]_vars

\* Without lifespan startup: one request whose initialize() raised and made no
\* transcribe() call, another whose initialize() succeeded and whose
\* transcribe() returned a text.
C26_Witness ==
    /\ app_state = "created" /\ ~patched
    /\ \E a, b \in Requests :
          /\ calls[a] = <<"initialize">> /\ exc[a].cls = "RuntimeError"
          /\ calls[b] = <<"initialize", "transcribe">> /\ returned[b] # Null

\* C28: when RAPIDAPI_PROXY_SECRET is configured, POST /v1/transcribe answers
\* 403 with envelope code 403 when the X-RapidAPI-Proxy-Secret header is
\* missing (details mentioning authentication) or differs from the configured
\* secret (details mentioning secret), and lets the request through to the
\* endpoint when the header equals the configured secret.
Mentions(d, word) == \E i \in 1..Len(d) : d[i] = word

Forbidden(r, word) ==
    /\ pc[r] = "rejected_auth"
    /\ resp[r].status = 403
    /\ resp[r].body.code = 403
    /\ Mentions(resp[r].body.details, word)

C28_ProxySecretIsChecked ==
    \A r \in Requests :
        (pc[r] # "idle" /\ ~IsNone(given[r].env_secret)) =>
            /\ Falsy(given[r].secret_header) => Forbidden(r, "authentication")
            /\ (~Falsy(given[r].secret_header)
                  /\ given[r].secret_header # given[r].env_secret) => Forbidden(r, "secret")
            /\ given[r].secret_header = given[r].env_secret => pc[r] # "rejected_auth"

\* C29: GET /health and GET /metrics are read-only.  Both always answer 200,
\* /health with status "ok" also when the memory is above the rejection
\* threshold; serving them changes neither the number of permits held or
\* available, nor any of the four fields of the metrics store, nor any
\* request; /metrics answers with the four fields as the store has them; and
\* writing into the dict that get_metrics() returned leaves the store as it was.
MetricsFields ==
    {"total_requests", "accepted_requests", "rejected_requests", "avg_processing_time_ms"}

C29_State ==
    /\ probe.kind = "health" =>
          /\ probe.resp.status = 200
          /\ probe.resp.body.status = "ok"
          /\ probe.resp.body.memory_percent \in HealthSamples
          /\ probe.resp.body.active_tasks \in 0..MAX_CONCURRENT_JOBS
    /\ probe.kind \in {"metrics", "modified"} =>
          /\ probe.resp.status = 200
          /\ DOMAIN probe.resp.body = MetricsFields
          /\ ~probe.snapshot.is_store
    /\ DOMAIN METRICS = MetricsFields
    /\ METRICS.total_requests = METRICS.accepted_requests + METRICS.rejected_requests
    /\ METRICS.total_requests <= NumRequests

C29_Step ==
    (probe' # probe) =>
        /\ METRICS' = METRICS
        /\ Held' = Held /\ Available' = Available
        /\ sem' = _ensure_semaphore(sem) \/ sem' = sem
        /\ pc' = pc /\ resp' = resp /\ records' = records
        /\ probe'.kind = "metrics" => probe'.resp.body = METRICS
        /\ probe'.kind = "health" =>
              probe'.resp.body.active_tasks = MAX_CONCURRENT_JOBS - Available

C29_ReadOnlyEndpoints == []C29_State /\ [][C29_Step]_vars

\* The dict returned by get_metrics() was written into while the store had
\* counted a request and a permit was held.
C29_Witness ==
    /\ probe.kind = "modified"
    /\ probe.snapshot.value.total_requests = TAMPERED
    /\ METRICS.total_requests >= 1 /\ METRICS.total_requests < TAMPERED
    /\ Held >= 1

\* C30: the guards run in the order memory, extension, size, permit, and the
\* first one that fails decides the answer.  With the memory above the
\* threshold the answer is 503 whatever the extension and the size; otherwise
\* with an extension that is not allowed it is 415 whatever the size;
\* otherwise with an oversize payload it is 413, given at once and without
\* queueing for a permit even when the pool is saturated; only a request that
\* passes the three guards asks for a permit.
MemoryFails(r) == given[r].mem_percent > MAX_MEMORY_THRESHOLD
ExtensionFails(r) == ~ExtensionAllowed(given[r].name)
SizeFails(r) == given[r].size > MAX_FILE_SIZE_BYTES

FirstFailing(r) ==
    IF MemoryFails(r) THEN "rejected_memory"
    ELSE IF ExtensionFails(r) THEN "rejected_extension"
    ELSE IF SizeFails(r) THEN "rejected_size"
    ELSE "none"

StatusOf(outcome) ==
    CASE outcome = "rejected_memory" -> 503
      [] outcome = "rejected_extension" -> 415
      [] outcome = "rejected_size" -> 413

C30_State ==
    \A r \in Fixed :
        /\ pc[r] \in {"rejected_memory", "rejected_extension", "rejected_size"} =>
              /\ pc[r] = FirstFailing(r)
              /\ resp[r].status = StatusOf(FirstFailing(r))
              /\ resp[r].body.code = StatusOf(FirstFailing(r))
              /\ ~acquired[r] /\ ~InQueue(r) /\ calls[r] = <<>>
        /\ pc[r] = "reading" => FirstFailing(r) \in {"rejected_size", "none"}
        /\ pc[r] \in {"waiting", "transcribing", "timed_out", "done"} =>
              FirstFailing(r) = "none"
        /\ (acquired[r] \/ InQueue(r)) => FirstFailing(r) = "none"

C30_Step ==
    \A r \in Requests :
        /\ (Leaves(r, "idle") /\ given[r] # Open /\ (MemoryFails(r) \/ ExtensionFails(r))) =>
              /\ pc'[r] = FirstFailing(r)
              /\ sem' = sem
        /\ (Leaves(r, "reading") /\ given[r] # Open /\ SizeFails(r)) =>
              /\ pc'[r] = "rejected_size"
              /\ resp'[r].status = 413
              /\ sem' = sem

C30_GuardOrder == []C30_State /\ [][C30_Step]_vars

\* An oversize payload refused with 413 while every permit is held.
C30_Witness ==
    \E r \in Fixed :
        /\ SizeFails(r) /\ ~MemoryFails(r) /\ ~ExtensionFails(r)
        /\ pc[r] = "rejected_size" /\ resp[r].status = 413
        /\ Held = MAX_CONCURRENT_JOBS /\ Available = 0


\* C31: after k >= 1 record calls with non-negative durations d1..dk on the
\* all-zero store, avg_processing_time_ms is the arithmetic mean
\* (d1 + ... + dk) / k of all recorded durations, the zero durations of
\* rejected requests included; each call applies
\* avg += (duration - avg) / total with the total already incremented.
RECURSIVE SumOfDurations(_)
SumOfDurations(calls_made) ==
    IF calls_made = <<>> THEN 0
    ELSE calls_made[1].duration_ms + SumOfDurations(Tail(calls_made))

NonNegative(calls_made) ==
    \A i \in 1..Len(calls_made) : calls_made[i].duration_ms >= 0

C31_State ==
    (records[1] # <<>> /\ NonNegative(records[1])) =>
        METRICS.avg_processing_time_ms =
            Fraction(SumOfDurations(records[1]), Len(records[1]))

C31_Step ==
    (Len(records'[1]) = Len(records[1]) + 1 /\ NonNegative(records'[1])) =>
        LET d == records'[1][Len(records'[1])].duration_ms
            avg == METRICS.avg_processing_time_ms
            total == METRICS'.total_requests
        IN  /\ total = METRICS.total_requests + 1
            /\ total = Len(records'[1])
            \* avg' = avg + (d - avg) / total, denominators cleared
            /\ METRICS'.avg_processing_time_ms.num * avg.den * total =
                  METRICS'.avg_processing_time_ms.den
                      * (avg.num * total + d * avg.den - avg.num)

CountersUnchanged ==
    /\ METRICS'.total_requests = METRICS.total_requests
    /\ METRICS'.accepted_requests = METRICS.accepted_requests
    /\ METRICS'.rejected_requests = METRICS.rejected_requests

OneMoreRequest ==
    /\ METRICS'.total_requests = METRICS.total_requests + 1
    /\ \/ /\ METRICS'.accepted_requests = METRICS.accepted_requests + 1
          /\ METRICS'.rejected_requests = METRICS.rejected_requests
       \/ /\ METRICS'.accepted_requests = METRICS.accepted_requests
          /\ METRICS'.rejected_requests = METRICS.rejected_requests + 1

C32_CountersOnlyGrow == [][CountersUnchanged \/ OneMoreRequest]_vars

\* Every request has been counted, accepted and rejected ones among them.
C32_Witness ==
    /\ METRICS.total_requests = NumRequests
    /\ METRICS.accepted_requests > 0
    /\ METRICS.rejected_requests > 0
    /\ \E r \in Requests : pc[r] = "timed_out"


\* C33: the Resource Guard rejects if and only if the memory utilization
\* sampled at entry is strictly greater than MAX_MEMORY_THRESHOLD: a sample
\* equal to the threshold passes.  The guard itself changes no state: the
\* pool, the transcriber and the requests in flight are as before, and the
\* metrics change by the one rejection record when it rejects and not at all
\* by the guard when it passes.
C33_State ==
    \A r \in Fixed :
        pc[r] # "idle" =>
            (pc[r] = "rejected_memory" <=> given[r].mem_percent > MAX_MEMORY_THRESHOLD)

GuardLeavesRest(r) ==
    /\ sem' = sem
    /\ initialized' = initialized /\ history' = history
    /\ app_state' = app_state /\ patched' = patched
    /\ acquired' = acquired /\ releases' = releases /\ calls' = calls
    /\ \A o \in Requests \ {r} :
          pc'[o] = pc[o] /\ resp'[o] = resp[o] /\ records'[o] = records[o]

C33_Step ==
    \A r \in Requests :
        (Leaves(r, "idle") /\ given[r] # Open) =>
            /\ GuardLeavesRest(r)
            /\ IF given[r].mem_percent > MAX_MEMORY_THRESHOLD
               THEN /\ pc'[r] = "rejected_memory"
                    /\ resp'[r].status = 503
                    /\ METRICS' = _metrics_record_request(METRICS, FALSE, 0)
                    /\ records'[r] = <<[accepted |-> FALSE, duration_ms |-> 0]>>
               ELSE /\ pc'[r] \in {"reading", "rejected_extension"}
                    /\ pc'[r] = "reading" =>
                          METRICS' = METRICS /\ records' = records /\ resp' = resp

C33_ResourceGuard == []C33_State /\ [][C33_Step]_vars

\* A request that met a sample equal to the threshold went on to transcribe.
C33_Witness ==
    \E r \in Fixed :
        /\ given[r].mem_percent = MAX_MEMORY_THRESHOLD
        /\ pc[r] = "transcribing"
        /\ acquired[r]


\* C34: every failure of the backend call inside WhisperTranscriber.transcribe()
\* reaches the caller as a RuntimeError.  A RuntimeError raised by the call is
\* re-raised unchanged, an exception of any other class is replaced by a new
\* RuntimeError, and a call that returned makes transcribe() return: no other
\* exception class leaves the part of transcribe() that runs the worker thread.
BackendCalls == {i \in Calls : history[i].op = "transcribe" /\ history[i].raw # NoRaw}

C34_BackendFailureIsRuntimeError ==
    \A i \in BackendCalls :
        LET raw == history[i].raw
            seen == history[i].exc
        IN  /\ history[i].before
            /\ raw.ok <=> history[i].ok
            /\ ~raw.ok =>
                 /\ seen.cls = "RuntimeError"
                 /\ raw.exc.cls = "RuntimeError" => seen = raw.exc
                 /\ raw.exc.cls # "RuntimeError" => seen # raw.exc

\* One backend call raised a RuntimeError, another a KeyError, a third an
\* FileNotFoundError about ffmpeg; the caller saw three RuntimeErrors.
C34_Witness ==
    \E i, j, k \in BackendCalls :
        /\ ~history[i].raw.ok /\ history[i].raw.exc.cls = "RuntimeError"
        /\ history[i].exc = history[i].raw.exc
        /\ ~history[j].raw.ok /\ history[j].raw.exc.cls = "KeyError"
        /\ history[j].exc.cls = "RuntimeError"
        /\ ~history[k].raw.ok /\ history[k].raw.exc.cls = "FileNotFoundError"
        /\ history[k].exc.cls = "RuntimeError"


\* C35: every temporary file created by a transcribe() call on an initialized
\* transcriber is deleted exactly once before the call returns or raises, on
\* the success path and on every failure path, so that no temporary file of a
\* finished call remains.
C35_TempFileDeletedOnce ==
    \A i \in Calls :
        (history[i].op = "transcribe" /\ history[i].before /\ history[i].file # "none") =>
            /\ history[i].unlinks = 1
            /\ history[i].file = "deleted"


\* C36: get_user_context, when RAPIDAPI_PROXY_SECRET is set, rejects with 403
\* unless the proxy-secret header is present and equal to it and the user
\* header is non-empty, and on success returns the user and subscription
\* headers; when the variable is not set it accepts every request and returns
\* the defaults "anonymous" and "FREE" for missing headers.
Rejected403(out) == ~out.ok /\ out.exc.cls = "HTTPException" /\ out.exc.status_code = 403

ReturnsHeadersOrDefaults(c, out) ==
    /\ out.ok
    /\ out.value.user = (IF Falsy(c.user_header) THEN ANONYMOUS ELSE c.user_header)
    /\ out.value.subscription =
          (IF Falsy(c.subscription_header) THEN FREE ELSE c.subscription_header)

\* As stated: a header that is present and equal to the configured secret is
\* enough, whatever the secret.
C36_SecretPresentAndEqual ==
    probe.kind = "user_context" =>
        LET c == probe.call
            out == probe.out
        IN  IF ~IsNone(c.env_secret)
            THEN IF /\ ~IsNone(c.secret_header)
                    /\ c.secret_header = c.env_secret
                    /\ ~Falsy(c.user_header)
                 THEN ReturnsHeadersOrDefaults(c, out) /\ out.value.user = c.user_header
                 ELSE Rejected403(out)
            ELSE ReturnsHeadersOrDefaults(c, out)

\* As the code has it: the header must be non-empty and equal to the secret, so
\* that a secret set to the empty string lets no request through.
C36_UserContext ==
    probe.kind = "user_context" =>
        LET c == probe.call
            out == probe.out
        IN  IF ~IsNone(c.env_secret)
            THEN IF /\ ~Falsy(c.secret_header)
                    /\ c.secret_header = c.env_secret
                    /\ ~Falsy(c.user_header)
                 THEN ReturnsHeadersOrDefaults(c, out) /\ out.value.user = c.user_header
                 ELSE Rejected403(out)
            ELSE ReturnsHeadersOrDefaults(c, out)

\* The secret is set to the empty string and the request carries an empty
\* proxy-secret header and a user: it is rejected.
C36_Witness ==
    /\ probe.kind = "user_context"
    /\ probe.call.env_secret = EMPTY
    /\ probe.call.secret_header = EMPTY
    /\ probe.call.user_header = TEST_USER
    /\ Rejected403(probe.out)


\* C37: accepted_requests counts exactly the requests answered with 200.  A
\* request whose Port call failed with RuntimeError, ValueError or OSError is
\* recorded as rejected, with its elapsed duration; every rejection by a guard
\* and every admission timeout is recorded as rejected with duration 0.
Answered200 == {r \in Requests : resp[r].status = 200}

C37_State ==
    /\ METRICS.accepted_requests = Cardinality(Answered200)
    /\ \A r \in Requests :
          /\ r \in Answered200 <=>
                (records[r] # <<>> /\ records[r][Len(records[r])].accepted)
          /\ exc[r].cls \in HandledClasses =>
                /\ resp[r].status = 500
                /\ Len(records[r]) = 1
                /\ ~records[r][1].accepted
                /\ records[r][1].duration_ms \in Elapsed
          /\ pc[r] \in {"rejected_memory", "rejected_extension", "rejected_size",
                        "timed_out"} =>
                records[r] = <<[accepted |-> FALSE, duration_ms |-> 0]>>

C37_Step ==
    /\ METRICS'.accepted_requests = METRICS.accepted_requests + 1 <=>
          \E r \in Requests : resp[r].status # 200 /\ resp'[r].status = 200
    /\ \A r \in Requests :
          (pc'[r] = "done" /\ pc[r] # "done" /\ exc'[r].cls \in HandledClasses) =>
              /\ METRICS'.rejected_requests = METRICS.rejected_requests + 1
              /\ METRICS'.accepted_requests = METRICS.accepted_requests

C37_AcceptedMeansAnswered200 == []C37_State /\ [][C37_Step]_vars

\* One request was answered 200, one failed in the backend and one timed out
\* while it waited for a permit.
C37_Witness ==
    \E a, b, c \in Requests :
        /\ resp[a].status = 200
        /\ exc[b].cls \in HandledClasses /\ calls[b] = <<"initialize", "transcribe">>
        /\ pc[c] = "timed_out"
        /\ METRICS.accepted_requests = 1
        /\ METRICS.rejected_requests = 2


\* C38: a POST /v1/transcribe that is rejected before the route body runs, by
\* the dependency verify_api_key_optional or by the validation of a request
\* without file field, leaves the number of permits held and the four fields
\* of the metrics store unchanged and never calls the backend.
EndedBeforeRoute == {"rejected_before_route", "rejected_auth"}

C38_State ==
    \A r \in Requests :
        pc[r] \in EndedBeforeRoute =>
            /\ resp[r].status \in {400, 403, 500}
            /\ records[r] = <<>>
            /\ calls[r] = <<>>
            /\ worker[r] = "none"
            /\ ~acquired[r] /\ releases[r] = 0 /\ ~InQueue(r)

C38_Step ==
    \A r \in Requests :
        (pc[r] = "idle" /\ pc'[r] \in EndedBeforeRoute) =>
            /\ \A f \in MetricsFields : METRICS'[f] = METRICS[f]
            /\ sem' = sem
            /\ Held' = Held
            /\ calls' = calls /\ worker' = worker /\ history' = history
            /\ initialized' = initialized

C38_RejectedBeforeRoute == []C38_State /\ [][C38_Step]_vars

\* A request is refused for its secret while another one is transcribing and a
\* third has been counted.
C38_Witness ==
    \E r, a, b \in Requests :
        /\ pc[r] = "rejected_before_route"
        /\ resp[r].status = 403
        /\ pc[a] = "transcribing" /\ Held > 0
        /\ pc[b] = "done" /\ METRICS.total_requests > 0


\* C39: when initialize() of the WhisperTranscriber fails inside an admitted
\* request (the required tool is absent), transcribe() is not called for that
\* request, its permit is released, the request is recorded once as rejected
\* and answered 500, the transcriber stays uninitialized, and the next
\* admitted request calls initialize() again.
InitializeFailed(r) == pc[r] = "done" /\ calls[r] = <<"initialize">>

C39_State ==
    ~patched =>
        \A r \in Requests :
            /\ InitializeFailed(r) =>
                  /\ exc[r].cls = "RuntimeError"
                  /\ resp[r].status = 500
                  /\ resp[r].body = _error_envelope(500, FAILED_DETAIL)
                  /\ Len(records[r]) = 1 /\ ~records[r][1].accepted
                  /\ acquired[r] /\ releases[r] = 1 /\ r \notin Holders
                  /\ worker[r] = "none"
            /\ (acquired[r] /\ pc[r] \in {"transcribing", "done"}) =>
                  /\ calls[r] # <<>>
                  /\ calls[r][1] = "initialize"

C39_Step ==
    ~patched =>
        \A r \in Requests :
            (pc[r] # "done" /\ pc'[r] = "done" /\ calls'[r] = <<"initialize">>) =>
                /\ ~initialized /\ ~initialized'
                /\ releases'[r] = 1
                /\ r \notin Holders'
                \* the permit it took is free again or handed to a waiter
                /\ Available' + Cardinality(Woken') = Available + Cardinality(Woken)
                /\ METRICS'.rejected_requests = METRICS.rejected_requests + 1
                /\ METRICS'.total_requests = METRICS.total_requests + 1

C39_InitializeFailure == []C39_State /\ [][C39_Step]_vars

\* initialize() failed in one request; a later request called it again, with
\* success, and was transcribed.
C39_Witness ==
    /\ ~patched
    /\ \E a, b \in Requests :
          /\ a < b
          /\ InitializeFailed(a) /\ resp[a].status = 500
          /\ calls[b] = <<"initialize", "transcribe">> /\ resp[b].status = 200
          /\ initialized

=============================================================================
